---------------------------- MODULE Spec2Model ----------------------------
(***************************************************************************)
(* A model of the two engines of image-manager.                            *)
(*                                                                         *)
(*   src/app.py   the curation engine: a session of dataset items that is  *)
(*                loaded from a document, edited (delete image, swap       *)
(*                images, update metadata, mark / unmark deletion) and     *)
(*                exported.                                                *)
(*   src/app2.py  the reclassification engine: a directory scan that pairs *)
(*                front / back files by their file names, and the rename   *)
(*                of a pair to a refined grade.                            *)
(*                                                                         *)
(* The engines share no state.  Spec is the curation engine, SpecReclass   *)
(* the reclassification engine; each leaves the other's variables alone.   *)
(* Python indices are kept 0-based as in the source; a TLA+ sequence is    *)
(* 1-based, so item i of the source is dataset[i + 1].                     *)
(***************************************************************************)
EXTENDS Integers, Sequences, FiniteSets, TLC

VARIABLES
    \* ---- src/app.py: st.session_state and the image directory ----
    dataset,          \* st.session_state.dataset: the sequence of items
    base_path,        \* st.session_state.base_path ("" is None)
    data_loaded,      \* st.session_state.data_loaded
    current_index,    \* st.session_state.current_index (the cursor)
    modified_items,   \* st.session_state.modified_items
    deleted_items,    \* st.session_state.deleted_items
    files,            \* the image files that exist: full paths <<base, rel>>
    last_export,      \* what the export_dataset call of this script run
                      \* returned and wrote; NoExport in every other run
    \* ---- src/app2.py: st.session_state and the scanned directory ----
    card_pairs,       \* st.session_state.card_pairs
    source_dir,       \* st.session_state.source_dir ("" is None)
    cards_loaded,     \* st.session_state.data_loaded of app2.py
    card_index,       \* st.session_state.current_index of app2.py
    classified_count, \* st.session_state.classified_count
    directory,        \* the names of the files in the scanned directory
    message           \* the st.success / st.error report of the last script
                      \* run of app2.py ("" when it made none)

curationVars == <<dataset, base_path, data_loaded, current_index,
                  modified_items, deleted_items, files, last_export>>
reclassVars  == <<card_pairs, source_dir, cards_loaded, card_index,
                  classified_count, directory, message>>
vars == <<curationVars, reclassVars>>

(***************************************************************************)
(*                     PART 1: src/app.py, curation                        *)
(***************************************************************************)

\* Bound: delete_image is tried with the image indices 0 .. MaxImageIndex,
\* which reach past the longest image list (3), and swap_images with
\* positions up to MaxImageIndex.
MaxImageIndex == 3

\* ---------------------------------------------------------------- values
\* A grade or grading company as Python holds it: the key is absent from
\* the item, or it is None, a number or a string.
Absent  == [t |-> "absent", n |-> 0, s |-> ""]
Null    == [t |-> "null",   n |-> 0, s |-> ""]
Num(k)  == [t |-> "num",    n |-> k, s |-> ""]
Text(x) == [t |-> "text",   n |-> 0, s |-> x]

\* Python truthiness of item.get(key): None, 0 and "" are falsy.
truthy_zero_ok(v) ==
    \/ v.t = "num"
    \/ v.t = "text" /\ v.s # ""
truthy(v) ==
    \/ v.t = "num" /\ v.n # 0
    \/ v.t = "text" /\ v.s # ""

MkItem(id, imgs, g, c) ==
    [listing_id |-> id, images |-> imgs, grade |-> g, grading_company |-> c]

\* ------------------------------------------------------------- documents
BaseDir == "/imgs"
ImagePaths == {"a.jpg", "b.jpg", "c.png"}

\* The documents a load is tried with: a single object, a list, an empty
\* list, and a text json.load cannot parse.
MkDoc(k, o, l) == [kind |-> k, obj |-> o, list |-> l]
NoItem == MkItem("", <<>>, Absent, Absent)
DocObject ==
    MkDoc("object", MkItem("L1", <<"a.jpg", "b.jpg", "c.png">>, Absent, Absent), <<>>)
DocList ==
    MkDoc("list", NoItem,
          << MkItem("L1", <<"a.jpg", "b.jpg">>, Num(10), Text("PSA")),
             MkItem("L2", <<"b.jpg", "c.png">>, Num(0), Text("PSA")) >>)
DocEmpty   == MkDoc("list", NoItem, <<>>)
DocInvalid == MkDoc("invalid", NoItem, <<>>)
Documents  == {DocObject, DocList, DocEmpty, DocInvalid}

\* The (grade, grading_company) pairs update_metadata is tried with.
UpdateInputs ==
    { <<Num(10), Text("PSA")>>, <<Num(0), Text("PSA")>>,
      <<Text("A"), Text("")>>,  <<Null, Text("PSA")>> }

\* uuid4()[:8]: a random token, here one of two.
UniqueIds == {"u1", "u2"}

\* -------------------------------------------------------------- session
\* The session and the image directory as one record, the argument and the
\* result of every operation below.
Session ==
    [dataset |-> dataset, base_path |-> base_path, data_loaded |-> data_loaded,
     current_index |-> current_index, modified_items |-> modified_items,
     deleted_items |-> deleted_items, files |-> files]

Indices(S) == 0 .. Len(S.dataset) - 1

\* json.load and the list-or-object normalisation of load_dataset.
json_load_ok(doc) == doc.kind # "invalid"
normalise(doc) == IF doc.kind = "object" THEN <<doc.obj>> ELSE doc.list

\* load_dataset inside the try of the Load Dataset button: json.load raises
\* before any assignment, and the handler swallows the exception.
load_dataset_partial(S, doc, base) ==
    IF json_load_ok(doc)
    THEN [S EXCEPT !.dataset = normalise(doc), !.base_path = base,
                   !.data_loaded = TRUE, !.current_index = 0,
                   !.modified_items = {}, !.deleted_items = {}]
    ELSE [S EXCEPT !.current_index = 0,
                   !.modified_items = {}, !.deleted_items = {}]
load_dataset(S, doc, base) ==
    IF json_load_ok(doc)
    THEN [S EXCEPT !.dataset = normalise(doc), !.base_path = base,
                   !.data_loaded = TRUE, !.current_index = 0,
                   !.modified_items = {}, !.deleted_items = {}]
    ELSE S

get_full_image_path(S, image_rel_path) == <<S.base_path, image_rel_path>>

\* list.pop(k), k 0-based and in range.
pop(seq, k) == SubSeq(seq, 1, k) \o SubSeq(seq, k + 2, Len(seq))

delete_image_needs_file(S, item_index, image_index) ==
    LET item == S.dataset[item_index + 1] IN
    IF image_index < Len(item.images)
       /\ get_full_image_path(S, item.images[image_index + 1]) \in S.files
    THEN [S EXCEPT !.files = @ \ {get_full_image_path(S, item.images[image_index + 1])},
                   !.dataset[item_index + 1].images = pop(item.images, image_index),
                   !.modified_items = @ \cup {item_index}]
    ELSE S
delete_image_marks_always(S, item_index, image_index) ==
    LET item == S.dataset[item_index + 1] IN
    IF image_index < Len(item.images)
    THEN LET image_path == get_full_image_path(S, item.images[image_index + 1]) IN
         [S EXCEPT !.files = @ \ {image_path},
                   !.dataset[item_index + 1].images = pop(item.images, image_index),
                   !.modified_items = @ \cup {item_index}]
    ELSE [S EXCEPT !.modified_items = @ \cup {item_index}]
delete_image_from_every_item(S, item_index, image_index) ==
    LET item == S.dataset[item_index + 1] IN
    IF image_index < Len(item.images)
    THEN LET image_path == get_full_image_path(S, item.images[image_index + 1]) IN
         [S EXCEPT !.files = @ \ {image_path},
                   !.dataset = [j \in DOMAIN S.dataset |->
                                   IF image_index < Len(S.dataset[j].images)
                                   THEN [S.dataset[j] EXCEPT
                                            !.images = pop(@, image_index)]
                                   ELSE S.dataset[j]],
                   !.modified_items = @ \cup {item_index}]
    ELSE S
delete_image(S, item_index, image_index) ==
    LET item == S.dataset[item_index + 1] IN
    IF image_index < Len(item.images)
    THEN LET image_path == get_full_image_path(S, item.images[image_index + 1]) IN
         [S EXCEPT !.files = @ \ {image_path},
                   !.dataset[item_index + 1].images = pop(item.images, image_index),
                   !.modified_items = @ \cup {item_index}]
    ELSE S

\* The "move to next item" of delete_listing and update_metadata.
advance_unclamped(S) == S.current_index + 1
advance(S) ==
    IF S.current_index < Len(S.dataset) - 1
    THEN S.current_index + 1
    ELSE S.current_index

delete_listing_drops_item(S, item_index) ==
    [S EXCEPT !.deleted_items = @ \cup {item_index},
              !.modified_items = @ \ {item_index},
              !.dataset[item_index + 1].images = <<>>,
              !.current_index = advance(S)]
delete_listing_pops_item(S, item_index) ==
    [S EXCEPT !.deleted_items = @ \cup {item_index},
              !.modified_items = @ \ {item_index},
              !.dataset = pop(@, item_index),
              !.current_index = advance(S)]
delete_listing(S, item_index) ==
    [S EXCEPT !.deleted_items = @ \cup {item_index},
              !.modified_items = @ \ {item_index},
              !.current_index = advance(S)]

swap_images_rotate(S, item_index, index1, index2) ==
    LET imgs == S.dataset[item_index + 1].images IN
    IF index1 < Len(imgs) /\ index2 < Len(imgs) /\ index1 # index2
    THEN [S EXCEPT !.dataset[item_index + 1].images = Tail(imgs) \o <<Head(imgs)>>,
                   !.modified_items = @ \cup {item_index}]
    ELSE S
swap_images(S, item_index, index1, index2) ==
    LET imgs == S.dataset[item_index + 1].images IN
    IF index1 < Len(imgs) /\ index2 < Len(imgs)
    THEN [S EXCEPT !.dataset[item_index + 1].images =
                       [imgs EXCEPT ![index1 + 1] = imgs[index2 + 1],
                                    ![index2 + 1] = imgs[index1 + 1]],
                   !.modified_items = @ \cup {item_index}]
    ELSE S

update_metadata_keeps_cursor(S, item_index, grade, grading_company) ==
    [S EXCEPT !.dataset[item_index + 1].grade = grade,
              !.dataset[item_index + 1].grading_company = grading_company,
              !.modified_items = @ \cup {item_index}]
update_metadata(S, item_index, grade, grading_company) ==
    [S EXCEPT !.dataset[item_index + 1].grade = grade,
              !.dataset[item_index + 1].grading_company = grading_company,
              !.modified_items = @ \cup {item_index},
              !.current_index = advance(S)]

undelete_listing_moves_cursor(S, item_index) ==
    IF item_index \in S.deleted_items
    THEN [S EXCEPT !.deleted_items = @ \ {item_index},
                   !.current_index = item_index]
    ELSE S
undelete_listing(S, item_index) ==
    IF item_index \in S.deleted_items
    THEN [S EXCEPT !.deleted_items = @ \ {item_index}]
    ELSE S


\* ---------------------------------------------------------------- export
\* Path(source_path).suffix of the image paths of the model.
suffix(image_rel_path) ==
    CASE image_rel_path = "a.jpg" -> ".jpg"
      [] image_rel_path = "b.jpg" -> ".jpg"
      [] image_rel_path = "c.png" -> ".png"
      [] OTHER -> ""

\* One line of export_log: what happened to the item (kind), the item's
\* listing_id, and the unique id or the missing source path (detail).
LogEntry(kind, item, detail) ==
    [kind |-> kind, listing_id |-> item.listing_id, detail |-> detail]

\* A file that shutil.copy2 wrote: company_dir / f"{grade}_{id}_{side}{ext}",
\* holding the bytes of source.
DestFile(item, unique_id, k, source_path) ==
    [dir |-> item.grading_company.s, grade |-> item.grade, id |-> unique_id,
     side |-> IF k = 0 THEN "front" ELSE "back",
     ext |-> suffix(source_path[2]), source |-> source_path]

\* The copy loop inside the try: images k, k+1, .. of the item. It stops at
\* the first source file that does not exist; the copies made stay.
RECURSIVE copy_images(_, _, _, _, _)
copy_images(S, item, unique_id, k, copied) ==
    IF k >= Len(item.images)
    THEN [ok |-> TRUE, copied |-> copied, missing |-> ""]
    ELSE LET source_path == get_full_image_path(S, item.images[k + 1]) IN
         IF source_path \notin S.files
         THEN [ok |-> FALSE, copied |-> copied, missing |-> source_path[2]]
         ELSE copy_images(S, item, unique_id, k + 1,
                          copied \cup {DestFile(item, unique_id, k, source_path)})

\* The outcome of one item: its log entry and the files copied for it.
export_item_images_first(S, idx, unique_id) ==
    LET item == S.dataset[idx + 1] IN
    IF idx \in S.deleted_items
    THEN [entry |-> LogEntry("deleted", item, ""), copied |-> {}]
    ELSE IF Len(item.images) # 2
    THEN [entry |-> LogEntry("images", item, ""), copied |-> {}]
    ELSE IF ~truthy(item.grade) \/ ~truthy(item.grading_company)
    THEN [entry |-> LogEntry("missing", item, ""), copied |-> {}]
    ELSE LET c == copy_images(S, item, unique_id, 0, {}) IN
         IF c.ok
         THEN [entry |-> LogEntry("exported", item, unique_id), copied |-> c.copied]
         ELSE [entry |-> LogEntry("error", item, c.missing), copied |-> c.copied]
export_item_rollback(S, idx, unique_id) ==
    LET item == S.dataset[idx + 1] IN
    IF idx \in S.deleted_items
    THEN [entry |-> LogEntry("deleted", item, ""), copied |-> {}]
    ELSE IF ~truthy(item.grade) \/ ~truthy(item.grading_company)
    THEN [entry |-> LogEntry("missing", item, ""), copied |-> {}]
    ELSE IF Len(item.images) # 2
    THEN [entry |-> LogEntry("images", item, ""), copied |-> {}]
    ELSE LET c == copy_images(S, item, unique_id, 0, {}) IN
         IF c.ok
         THEN [entry |-> LogEntry("exported", item, unique_id), copied |-> c.copied]
         ELSE [entry |-> LogEntry("error", item, c.missing), copied |-> {}]
export_item(S, idx, unique_id) ==
    LET item == S.dataset[idx + 1] IN
    IF idx \in S.deleted_items
    THEN [entry |-> LogEntry("deleted", item, ""), copied |-> {}]
    ELSE IF ~truthy(item.grade) \/ ~truthy(item.grading_company)
    THEN [entry |-> LogEntry("missing", item, ""), copied |-> {}]
    ELSE IF Len(item.images) # 2
    THEN [entry |-> LogEntry("images", item, ""), copied |-> {}]
    ELSE LET c == copy_images(S, item, unique_id, 0, {}) IN
         IF c.ok
         THEN [entry |-> LogEntry("exported", item, unique_id), copied |-> c.copied]
         ELSE [entry |-> LogEntry("error", item, c.missing), copied |-> c.copied]

\* The loop of export_dataset over the items idx, idx+1, ..; ids[idx] is the
\* unique id drawn for item idx.
RECURSIVE export_loop(_, _, _, _)
export_loop(S, ids, idx, acc) ==
    IF idx >= Len(S.dataset)
    THEN acc
    ELSE LET r == export_item(S, idx, ids[idx]) IN
         export_loop(S, ids, idx + 1,
             [acc EXCEPT !.exported_count =
                             IF r.entry.kind = "exported" THEN @ + 1 ELSE @,
                         !.skipped_count =
                             IF r.entry.kind = "exported" THEN @ ELSE @ + 1,
                         !.export_log = Append(@, r.entry),
                         !.copied = @ \cup r.copied])

\* No export_dataset call in this script run.
NoExport ==
    [ran |-> FALSE, exported_count |-> 0, skipped_count |-> 0,
     export_log |-> <<>>, copied |-> {}, snapshot |-> <<>>]

\* The records json.dump writes to dataset_metadata.json.
snapshot_filtered(S) ==
    LET kept == {k \in 1 .. Len(S.dataset) : (k - 1) \notin S.deleted_items}
        RECURSIVE build(_)
        build(k) == IF k > Len(S.dataset) THEN <<>>
                    ELSE IF k \in kept THEN <<S.dataset[k]>> \o build(k + 1)
                    ELSE build(k + 1)
    IN build(1)
snapshot(S) == S.dataset

\* export_dataset: the counts, the log, the files copied and the snapshot.
export_dataset(S, ids) ==
    LET r == export_loop(S, ids, 0, [NoExport EXCEPT !.ran = TRUE]) IN
    [r EXCEPT !.snapshot = snapshot(S)]


\* --------------------------------------------------------------- actions
\* The state a handler leaves: the session S and, for the export button,
\* what export_dataset returned and wrote.
Becomes(S, exp) ==
    /\ dataset' = S.dataset
    /\ base_path' = S.base_path
    /\ data_loaded' = S.data_loaded
    /\ current_index' = S.current_index
    /\ modified_items' = S.modified_items
    /\ deleted_items' = S.deleted_items
    /\ files' = S.files
    /\ last_export' = exp
    /\ UNCHANGED reclassVars

\* The navigation, edit and export widgets are drawn only for a loaded,
\* non-empty dataset (with no item the page script raises before them).
Editable == data_loaded /\ Len(dataset) > 0

\* "Load Dataset": both paths must exist; a document json.load cannot parse
\* raises inside the try and is reported.
LoadDataset ==
    \E doc \in Documents, paths_exist \in BOOLEAN :
        Becomes(IF paths_exist THEN load_dataset(Session, doc, BaseDir) ELSE Session,
                NoExport)

prev_index(S) == IF S.current_index > 0 THEN S.current_index - 1 ELSE S.current_index
Prev ==
    /\ data_loaded
    /\ Becomes([Session EXCEPT !.current_index = prev_index(Session)], NoExport)

NextItem ==
    /\ data_loaded
    /\ Becomes([Session EXCEPT !.current_index = advance(Session)], NoExport)

\* "Go": the number input holds a value in 1 .. total_items.
Jump ==
    /\ Editable
    /\ \E jump_to \in 1 .. Len(dataset) :
           Becomes([Session EXCEPT !.current_index = jump_to - 1], NoExport)

DeleteImage ==
    /\ Editable
    /\ \E i \in Indices(Session), k \in 0 .. MaxImageIndex :
           Becomes(delete_image(Session, i, k), NoExport)

\* The position pairs swap_images is tried with: the two the swap buttons
\* pass, (0, 1) and (1, 2), a pair that is not adjacent, and a pair that
\* reaches past the longest image list.
SwapPositions == {<<0, 1>>, <<1, 2>>, <<2, 0>>, <<1, MaxImageIndex>>}

SwapImages ==
    /\ Editable
    /\ \E i \in Indices(Session), ab \in SwapPositions :
           Becomes(swap_images(Session, i, ab[1], ab[2]), NoExport)

UpdateMetadata ==
    /\ Editable
    /\ \E i \in Indices(Session), in \in UpdateInputs :
           Becomes(update_metadata(Session, i, in[1], in[2]), NoExport)

MarkDeleted ==
    /\ Editable
    /\ \E i \in Indices(Session) : Becomes(delete_listing(Session, i), NoExport)

UnmarkDeleted ==
    /\ Editable
    /\ \E i \in Indices(Session) : Becomes(undelete_listing(Session, i), NoExport)

\* The texts of the Output Directory box: left empty, or a path.
OutputDirs == {"", "out"}

ExportMovesFiles ==
    /\ Editable
    /\ \E output_dir \in OutputDirs :
           \/ /\ output_dir = ""
              /\ Becomes(Session, NoExport)
           \/ /\ output_dir # ""
              /\ \E ids \in [Indices(Session) -> UniqueIds] :
                     LET r == export_dataset(Session, ids) IN
                     Becomes([Session EXCEPT
                                  !.files = @ \ {f.source : f \in r.copied}], r)

\* The export button: with the Output Directory box empty the handler only
\* reports "Please specify output directory" and export_dataset is not
\* called; otherwise export_dataset runs.
Export ==
    /\ Editable
    /\ \E output_dir \in OutputDirs :
           \/ /\ output_dir = ""
              /\ Becomes(Session, NoExport)
           \/ /\ output_dir # ""
              /\ \E ids \in [Indices(Session) -> UniqueIds] :
                     Becomes(Session, export_dataset(Session, ids))

\* The image files that exist when the program starts.
InitialFiles == SUBSET ({BaseDir} \X ImagePaths)

InitReclassIdle ==
    /\ card_pairs = <<>>
    /\ source_dir = ""
    /\ cards_loaded = FALSE
    /\ card_index = 0
    /\ classified_count = 0
    /\ directory = {}
    /\ message = ""

Init ==
    /\ dataset = <<>>
    /\ base_path = ""
    /\ data_loaded = FALSE
    /\ current_index = 0
    /\ modified_items = {}
    /\ deleted_items = {}
    /\ files \in InitialFiles
    /\ last_export = NoExport
    /\ InitReclassIdle

Next ==
    \/ LoadDataset
    \/ Prev
    \/ NextItem
    \/ Jump
    \/ DeleteImage
    \/ SwapImages
    \/ UpdateMetadata
    \/ MarkDeleted
    \/ UnmarkDeleted
    \/ Export

Spec == Init /\ [][Next]_vars


(***************************************************************************)
(*                  PART 2: src/app2.py, reclassification                  *)
(***************************************************************************)

\* Bounds: the directory starts with at most MaxFiles files, and the
\* classified counter is followed up to MaxClassified.
MaxFiles == 4
MaxClassified == 2

\* ------------------------------------------------------------ characters
\* A text is the sequence of the code points of its characters: "10_ab" is
\* <<49, 48, 95, 97, 98>>. Codes writes a text by its characters, those of
\* the code points 32 .. 95 and 97 .. 126.
PrintableFrom32 ==
    << " ", "!", "\"", "#", "$", "%", "&", "'", "(", ")", "*", "+",
       ",", "-", ".", "/", "0", "1", "2", "3", "4", "5", "6", "7",
       "8", "9", ":", ";", "<", "=", ">", "?", "@", "A", "B", "C",
       "D", "E", "F", "G", "H", "I", "J", "K", "L", "M", "N", "O",
       "P", "Q", "R", "S", "T", "U", "V", "W", "X", "Y", "Z", "[",
       "\\", "]", "^", "_" >>
PrintableFrom97 ==
    << "a", "b", "c", "d", "e", "f", "g", "h", "i", "j", "k", "l",
       "m", "n", "o", "p", "q", "r", "s", "t", "u", "v", "w", "x",
       "y", "z", "{", "|", "}", "~" >>

Range(seq) == {seq[i] : i \in DOMAIN seq}
PosIn(seq, c) == CHOOSE i \in DOMAIN seq : seq[i] = c

code(c) ==
    IF c \in Range(PrintableFrom32) THEN 31 + PosIn(PrintableFrom32, c)
    ELSE 96 + PosIn(PrintableFrom97, c)
Codes(text) == [i \in DOMAIN text |-> code(text[i])]

\* The characters the code names, by code point: the newline, " ", "+", "-",
\* ".", "0", "9", "?", "A", "E", "Z", "_", "a", "e", "f", "z", and those of the
\* special cases of str.lower().
Newline == 10
Space == 32
Plus == 43
Minus == 45
Dot == 46
Zero == 48
Nine == 57
QuestionMark == 63
CapitalA == 65
CapitalE == 69
CapitalZ == 90
Underscore == 95
SmallA == 97
SmallE == 101
SmallF == 102
SmallZ == 122
CapitalIDotAbove == 304
CombiningDotAbove == 775
CapitalSigma == 931
FinalSigma == 962
SmallSigma == 963

\* The tables below are those of the Unicode database of the interpreter,
\* as runs <<first, last>> of code points.
in_runs(c, runs) == \E r \in runs : r[1] <= c /\ c <= r[2]

\* \d of a str pattern: the decimal digits of every script. Past ASCII they
\* come in runs of ten, zero to nine.
DigitRuns ==
    {
      <<1632, 1641>>, <<1776, 1785>>, <<1984, 1993>>, <<2406, 2415>>, <<2534, 2543>>, <<2662, 2671>>,
      <<2790, 2799>>, <<2918, 2927>>, <<3046, 3055>>, <<3174, 3183>>, <<3302, 3311>>, <<3430, 3439>>,
      <<3558, 3567>>, <<3664, 3673>>, <<3792, 3801>>, <<3872, 3881>>, <<4160, 4169>>, <<4240, 4249>>,
      <<6112, 6121>>, <<6160, 6169>>, <<6470, 6479>>, <<6608, 6617>>, <<6784, 6793>>, <<6800, 6809>>,
      <<6992, 7001>>, <<7088, 7097>>, <<7232, 7241>>, <<7248, 7257>>, <<42528, 42537>>, <<43216, 43225>>,
      <<43264, 43273>>, <<43472, 43481>>, <<43504, 43513>>, <<43600, 43609>>, <<44016, 44025>>, <<65296, 65305>>,
      <<66720, 66729>>, <<68912, 68921>>, <<69734, 69743>>, <<69872, 69881>>, <<69942, 69951>>, <<70096, 70105>>,
      <<70384, 70393>>, <<70736, 70745>>, <<70864, 70873>>, <<71248, 71257>>, <<71360, 71369>>, <<71472, 71481>>,
      <<71904, 71913>>, <<72016, 72025>>, <<72784, 72793>>, <<73040, 73049>>, <<73120, 73129>>, <<92768, 92777>>,
      <<92864, 92873>>, <<93008, 93017>>, <<120782, 120831>>, <<123200, 123209>>, <<123632, 123641>>, <<125264, 125273>>,
      <<130032, 130041>> }

is_digit(c) ==
    IF c < 128 THEN Zero <= c /\ c <= Nine ELSE in_runs(c, DigitRuns)
digit_value(c) ==
    IF c < 128 THEN c - Zero
    ELSE LET r == CHOOSE r \in DigitRuns : r[1] <= c /\ c <= r[2] IN (c - r[1]) % 10

\* \w of a str pattern: the letters, the digits and "_" of ASCII, and past
\* ASCII every alphanumeric character.
WordRuns ==
    {
      <<170, 170>>, <<178, 179>>, <<181, 181>>, <<185, 186>>, <<188, 190>>,
      <<192, 214>>, <<216, 246>>, <<248, 705>>, <<710, 721>>, <<736, 740>>,
      <<748, 748>>, <<750, 750>>, <<880, 884>>, <<886, 887>>, <<890, 893>>,
      <<895, 895>>, <<902, 902>>, <<904, 906>>, <<908, 908>>, <<910, 929>>,
      <<931, 1013>>, <<1015, 1153>>, <<1162, 1327>>, <<1329, 1366>>, <<1369, 1369>>,
      <<1376, 1416>>, <<1488, 1514>>, <<1519, 1522>>, <<1568, 1610>>, <<1632, 1641>>,
      <<1646, 1647>>, <<1649, 1747>>, <<1749, 1749>>, <<1765, 1766>>, <<1774, 1788>>,
      <<1791, 1791>>, <<1808, 1808>>, <<1810, 1839>>, <<1869, 1957>>, <<1969, 1969>>,
      <<1984, 2026>>, <<2036, 2037>>, <<2042, 2042>>, <<2048, 2069>>, <<2074, 2074>>,
      <<2084, 2084>>, <<2088, 2088>>, <<2112, 2136>>, <<2144, 2154>>, <<2160, 2183>>,
      <<2185, 2190>>, <<2208, 2249>>, <<2308, 2361>>, <<2365, 2365>>, <<2384, 2384>>,
      <<2392, 2401>>, <<2406, 2415>>, <<2417, 2432>>, <<2437, 2444>>, <<2447, 2448>>,
      <<2451, 2472>>, <<2474, 2480>>, <<2482, 2482>>, <<2486, 2489>>, <<2493, 2493>>,
      <<2510, 2510>>, <<2524, 2525>>, <<2527, 2529>>, <<2534, 2545>>, <<2548, 2553>>,
      <<2556, 2556>>, <<2565, 2570>>, <<2575, 2576>>, <<2579, 2600>>, <<2602, 2608>>,
      <<2610, 2611>>, <<2613, 2614>>, <<2616, 2617>>, <<2649, 2652>>, <<2654, 2654>>,
      <<2662, 2671>>, <<2674, 2676>>, <<2693, 2701>>, <<2703, 2705>>, <<2707, 2728>>,
      <<2730, 2736>>, <<2738, 2739>>, <<2741, 2745>>, <<2749, 2749>>, <<2768, 2768>>,
      <<2784, 2785>>, <<2790, 2799>>, <<2809, 2809>>, <<2821, 2828>>, <<2831, 2832>>,
      <<2835, 2856>>, <<2858, 2864>>, <<2866, 2867>>, <<2869, 2873>>, <<2877, 2877>>,
      <<2908, 2909>>, <<2911, 2913>>, <<2918, 2927>>, <<2929, 2935>>, <<2947, 2947>>,
      <<2949, 2954>>, <<2958, 2960>>, <<2962, 2965>>, <<2969, 2970>>, <<2972, 2972>>,
      <<2974, 2975>>, <<2979, 2980>>, <<2984, 2986>>, <<2990, 3001>>, <<3024, 3024>>,
      <<3046, 3058>>, <<3077, 3084>>, <<3086, 3088>>, <<3090, 3112>>, <<3114, 3129>>,
      <<3133, 3133>>, <<3160, 3162>>, <<3165, 3165>>, <<3168, 3169>>, <<3174, 3183>>,
      <<3192, 3198>>, <<3200, 3200>>, <<3205, 3212>>, <<3214, 3216>>, <<3218, 3240>>,
      <<3242, 3251>>, <<3253, 3257>>, <<3261, 3261>>, <<3293, 3294>>, <<3296, 3297>>,
      <<3302, 3311>>, <<3313, 3314>>, <<3332, 3340>>, <<3342, 3344>>, <<3346, 3386>>,
      <<3389, 3389>>, <<3406, 3406>>, <<3412, 3414>>, <<3416, 3425>>, <<3430, 3448>>,
      <<3450, 3455>>, <<3461, 3478>>, <<3482, 3505>>, <<3507, 3515>>, <<3517, 3517>>,
      <<3520, 3526>>, <<3558, 3567>>, <<3585, 3632>>, <<3634, 3635>>, <<3648, 3654>>,
      <<3664, 3673>>, <<3713, 3714>>, <<3716, 3716>>, <<3718, 3722>>, <<3724, 3747>>,
      <<3749, 3749>>, <<3751, 3760>>, <<3762, 3763>>, <<3773, 3773>>, <<3776, 3780>>,
      <<3782, 3782>>, <<3792, 3801>>, <<3804, 3807>>, <<3840, 3840>>, <<3872, 3891>>,
      <<3904, 3911>>, <<3913, 3948>>, <<3976, 3980>>, <<4096, 4138>>, <<4159, 4169>>,
      <<4176, 4181>>, <<4186, 4189>>, <<4193, 4193>>, <<4197, 4198>>, <<4206, 4208>>,
      <<4213, 4225>>, <<4238, 4238>>, <<4240, 4249>>, <<4256, 4293>>, <<4295, 4295>>,
      <<4301, 4301>>, <<4304, 4346>>, <<4348, 4680>>, <<4682, 4685>>, <<4688, 4694>>,
      <<4696, 4696>>, <<4698, 4701>>, <<4704, 4744>>, <<4746, 4749>>, <<4752, 4784>>,
      <<4786, 4789>>, <<4792, 4798>>, <<4800, 4800>>, <<4802, 4805>>, <<4808, 4822>>,
      <<4824, 4880>>, <<4882, 4885>>, <<4888, 4954>>, <<4969, 4988>>, <<4992, 5007>>,
      <<5024, 5109>>, <<5112, 5117>>, <<5121, 5740>>, <<5743, 5759>>, <<5761, 5786>>,
      <<5792, 5866>>, <<5870, 5880>>, <<5888, 5905>>, <<5919, 5937>>, <<5952, 5969>>,
      <<5984, 5996>>, <<5998, 6000>>, <<6016, 6067>>, <<6103, 6103>>, <<6108, 6108>>,
      <<6112, 6121>>, <<6128, 6137>>, <<6160, 6169>>, <<6176, 6264>>, <<6272, 6276>>,
      <<6279, 6312>>, <<6314, 6314>>, <<6320, 6389>>, <<6400, 6430>>, <<6470, 6509>>,
      <<6512, 6516>>, <<6528, 6571>>, <<6576, 6601>>, <<6608, 6618>>, <<6656, 6678>>,
      <<6688, 6740>>, <<6784, 6793>>, <<6800, 6809>>, <<6823, 6823>>, <<6917, 6963>>,
      <<6981, 6988>>, <<6992, 7001>>, <<7043, 7072>>, <<7086, 7141>>, <<7168, 7203>>,
      <<7232, 7241>>, <<7245, 7293>>, <<7296, 7304>>, <<7312, 7354>>, <<7357, 7359>>,
      <<7401, 7404>>, <<7406, 7411>>, <<7413, 7414>>, <<7418, 7418>>, <<7424, 7615>>,
      <<7680, 7957>>, <<7960, 7965>>, <<7968, 8005>>, <<8008, 8013>>, <<8016, 8023>>,
      <<8025, 8025>>, <<8027, 8027>>, <<8029, 8029>>, <<8031, 8061>>, <<8064, 8116>>,
      <<8118, 8124>>, <<8126, 8126>>, <<8130, 8132>>, <<8134, 8140>>, <<8144, 8147>>,
      <<8150, 8155>>, <<8160, 8172>>, <<8178, 8180>>, <<8182, 8188>>, <<8304, 8305>>,
      <<8308, 8313>>, <<8319, 8329>>, <<8336, 8348>>, <<8450, 8450>>, <<8455, 8455>>,
      <<8458, 8467>>, <<8469, 8469>>, <<8473, 8477>>, <<8484, 8484>>, <<8486, 8486>>,
      <<8488, 8488>>, <<8490, 8493>>, <<8495, 8505>>, <<8508, 8511>>, <<8517, 8521>>,
      <<8526, 8526>>, <<8528, 8585>>, <<9312, 9371>>, <<9450, 9471>>, <<10102, 10131>>,
      <<11264, 11492>>, <<11499, 11502>>, <<11506, 11507>>, <<11517, 11517>>, <<11520, 11557>>,
      <<11559, 11559>>, <<11565, 11565>>, <<11568, 11623>>, <<11631, 11631>>, <<11648, 11670>>,
      <<11680, 11686>>, <<11688, 11694>>, <<11696, 11702>>, <<11704, 11710>>, <<11712, 11718>>,
      <<11720, 11726>>, <<11728, 11734>>, <<11736, 11742>>, <<11823, 11823>>, <<12293, 12295>>,
      <<12321, 12329>>, <<12337, 12341>>, <<12344, 12348>>, <<12353, 12438>>, <<12445, 12447>>,
      <<12449, 12538>>, <<12540, 12543>>, <<12549, 12591>>, <<12593, 12686>>, <<12690, 12693>>,
      <<12704, 12735>>, <<12784, 12799>>, <<12832, 12841>>, <<12872, 12879>>, <<12881, 12895>>,
      <<12928, 12937>>, <<12977, 12991>>, <<13312, 19903>>, <<19968, 42124>>, <<42192, 42237>>,
      <<42240, 42508>>, <<42512, 42539>>, <<42560, 42606>>, <<42623, 42653>>, <<42656, 42735>>,
      <<42775, 42783>>, <<42786, 42888>>, <<42891, 42954>>, <<42960, 42961>>, <<42963, 42963>>,
      <<42965, 42969>>, <<42994, 43009>>, <<43011, 43013>>, <<43015, 43018>>, <<43020, 43042>>,
      <<43056, 43061>>, <<43072, 43123>>, <<43138, 43187>>, <<43216, 43225>>, <<43250, 43255>>,
      <<43259, 43259>>, <<43261, 43262>>, <<43264, 43301>>, <<43312, 43334>>, <<43360, 43388>>,
      <<43396, 43442>>, <<43471, 43481>>, <<43488, 43492>>, <<43494, 43518>>, <<43520, 43560>>,
      <<43584, 43586>>, <<43588, 43595>>, <<43600, 43609>>, <<43616, 43638>>, <<43642, 43642>>,
      <<43646, 43695>>, <<43697, 43697>>, <<43701, 43702>>, <<43705, 43709>>, <<43712, 43712>>,
      <<43714, 43714>>, <<43739, 43741>>, <<43744, 43754>>, <<43762, 43764>>, <<43777, 43782>>,
      <<43785, 43790>>, <<43793, 43798>>, <<43808, 43814>>, <<43816, 43822>>, <<43824, 43866>>,
      <<43868, 43881>>, <<43888, 44002>>, <<44016, 44025>>, <<44032, 55203>>, <<55216, 55238>>,
      <<55243, 55291>>, <<63744, 64109>>, <<64112, 64217>>, <<64256, 64262>>, <<64275, 64279>>,
      <<64285, 64285>>, <<64287, 64296>>, <<64298, 64310>>, <<64312, 64316>>, <<64318, 64318>>,
      <<64320, 64321>>, <<64323, 64324>>, <<64326, 64433>>, <<64467, 64829>>, <<64848, 64911>>,
      <<64914, 64967>>, <<65008, 65019>>, <<65136, 65140>>, <<65142, 65276>>, <<65296, 65305>>,
      <<65313, 65338>>, <<65345, 65370>>, <<65382, 65470>>, <<65474, 65479>>, <<65482, 65487>>,
      <<65490, 65495>>, <<65498, 65500>>, <<65536, 65547>>, <<65549, 65574>>, <<65576, 65594>>,
      <<65596, 65597>>, <<65599, 65613>>, <<65616, 65629>>, <<65664, 65786>>, <<65799, 65843>>,
      <<65856, 65912>>, <<65930, 65931>>, <<66176, 66204>>, <<66208, 66256>>, <<66273, 66299>>,
      <<66304, 66339>>, <<66349, 66378>>, <<66384, 66421>>, <<66432, 66461>>, <<66464, 66499>>,
      <<66504, 66511>>, <<66513, 66517>>, <<66560, 66717>>, <<66720, 66729>>, <<66736, 66771>>,
      <<66776, 66811>>, <<66816, 66855>>, <<66864, 66915>>, <<66928, 66938>>, <<66940, 66954>>,
      <<66956, 66962>>, <<66964, 66965>>, <<66967, 66977>>, <<66979, 66993>>, <<66995, 67001>>,
      <<67003, 67004>>, <<67072, 67382>>, <<67392, 67413>>, <<67424, 67431>>, <<67456, 67461>>,
      <<67463, 67504>>, <<67506, 67514>>, <<67584, 67589>>, <<67592, 67592>>, <<67594, 67637>>,
      <<67639, 67640>>, <<67644, 67644>>, <<67647, 67669>>, <<67672, 67702>>, <<67705, 67742>>,
      <<67751, 67759>>, <<67808, 67826>>, <<67828, 67829>>, <<67835, 67867>>, <<67872, 67897>>,
      <<67968, 68023>>, <<68028, 68047>>, <<68050, 68096>>, <<68112, 68115>>, <<68117, 68119>>,
      <<68121, 68149>>, <<68160, 68168>>, <<68192, 68222>>, <<68224, 68255>>, <<68288, 68295>>,
      <<68297, 68324>>, <<68331, 68335>>, <<68352, 68405>>, <<68416, 68437>>, <<68440, 68466>>,
      <<68472, 68497>>, <<68521, 68527>>, <<68608, 68680>>, <<68736, 68786>>, <<68800, 68850>>,
      <<68858, 68899>>, <<68912, 68921>>, <<69216, 69246>>, <<69248, 69289>>, <<69296, 69297>>,
      <<69376, 69415>>, <<69424, 69445>>, <<69457, 69460>>, <<69488, 69505>>, <<69552, 69579>>,
      <<69600, 69622>>, <<69635, 69687>>, <<69714, 69743>>, <<69745, 69746>>, <<69749, 69749>>,
      <<69763, 69807>>, <<69840, 69864>>, <<69872, 69881>>, <<69891, 69926>>, <<69942, 69951>>,
      <<69956, 69956>>, <<69959, 69959>>, <<69968, 70002>>, <<70006, 70006>>, <<70019, 70066>>,
      <<70081, 70084>>, <<70096, 70106>>, <<70108, 70108>>, <<70113, 70132>>, <<70144, 70161>>,
      <<70163, 70187>>, <<70272, 70278>>, <<70280, 70280>>, <<70282, 70285>>, <<70287, 70301>>,
      <<70303, 70312>>, <<70320, 70366>>, <<70384, 70393>>, <<70405, 70412>>, <<70415, 70416>>,
      <<70419, 70440>>, <<70442, 70448>>, <<70450, 70451>>, <<70453, 70457>>, <<70461, 70461>>,
      <<70480, 70480>>, <<70493, 70497>>, <<70656, 70708>>, <<70727, 70730>>, <<70736, 70745>>,
      <<70751, 70753>>, <<70784, 70831>>, <<70852, 70853>>, <<70855, 70855>>, <<70864, 70873>>,
      <<71040, 71086>>, <<71128, 71131>>, <<71168, 71215>>, <<71236, 71236>>, <<71248, 71257>>,
      <<71296, 71338>>, <<71352, 71352>>, <<71360, 71369>>, <<71424, 71450>>, <<71472, 71483>>,
      <<71488, 71494>>, <<71680, 71723>>, <<71840, 71922>>, <<71935, 71942>>, <<71945, 71945>>,
      <<71948, 71955>>, <<71957, 71958>>, <<71960, 71983>>, <<71999, 71999>>, <<72001, 72001>>,
      <<72016, 72025>>, <<72096, 72103>>, <<72106, 72144>>, <<72161, 72161>>, <<72163, 72163>>,
      <<72192, 72192>>, <<72203, 72242>>, <<72250, 72250>>, <<72272, 72272>>, <<72284, 72329>>,
      <<72349, 72349>>, <<72368, 72440>>, <<72704, 72712>>, <<72714, 72750>>, <<72768, 72768>>,
      <<72784, 72812>>, <<72818, 72847>>, <<72960, 72966>>, <<72968, 72969>>, <<72971, 73008>>,
      <<73030, 73030>>, <<73040, 73049>>, <<73056, 73061>>, <<73063, 73064>>, <<73066, 73097>>,
      <<73112, 73112>>, <<73120, 73129>>, <<73440, 73458>>, <<73648, 73648>>, <<73664, 73684>>,
      <<73728, 74649>>, <<74752, 74862>>, <<74880, 75075>>, <<77712, 77808>>, <<77824, 78894>>,
      <<82944, 83526>>, <<92160, 92728>>, <<92736, 92766>>, <<92768, 92777>>, <<92784, 92862>>,
      <<92864, 92873>>, <<92880, 92909>>, <<92928, 92975>>, <<92992, 92995>>, <<93008, 93017>>,
      <<93019, 93025>>, <<93027, 93047>>, <<93053, 93071>>, <<93760, 93846>>, <<93952, 94026>>,
      <<94032, 94032>>, <<94099, 94111>>, <<94176, 94177>>, <<94179, 94179>>, <<94208, 100343>>,
      <<100352, 101589>>, <<101632, 101640>>, <<110576, 110579>>, <<110581, 110587>>, <<110589, 110590>>,
      <<110592, 110882>>, <<110928, 110930>>, <<110948, 110951>>, <<110960, 111355>>, <<113664, 113770>>,
      <<113776, 113788>>, <<113792, 113800>>, <<113808, 113817>>, <<119520, 119539>>, <<119648, 119672>>,
      <<119808, 119892>>, <<119894, 119964>>, <<119966, 119967>>, <<119970, 119970>>, <<119973, 119974>>,
      <<119977, 119980>>, <<119982, 119993>>, <<119995, 119995>>, <<119997, 120003>>, <<120005, 120069>>,
      <<120071, 120074>>, <<120077, 120084>>, <<120086, 120092>>, <<120094, 120121>>, <<120123, 120126>>,
      <<120128, 120132>>, <<120134, 120134>>, <<120138, 120144>>, <<120146, 120485>>, <<120488, 120512>>,
      <<120514, 120538>>, <<120540, 120570>>, <<120572, 120596>>, <<120598, 120628>>, <<120630, 120654>>,
      <<120656, 120686>>, <<120688, 120712>>, <<120714, 120744>>, <<120746, 120770>>, <<120772, 120779>>,
      <<120782, 120831>>, <<122624, 122654>>, <<123136, 123180>>, <<123191, 123197>>, <<123200, 123209>>,
      <<123214, 123214>>, <<123536, 123565>>, <<123584, 123627>>, <<123632, 123641>>, <<124896, 124902>>,
      <<124904, 124907>>, <<124909, 124910>>, <<124912, 124926>>, <<124928, 125124>>, <<125127, 125135>>,
      <<125184, 125251>>, <<125259, 125259>>, <<125264, 125273>>, <<126065, 126123>>, <<126125, 126127>>,
      <<126129, 126132>>, <<126209, 126253>>, <<126255, 126269>>, <<126464, 126467>>, <<126469, 126495>>,
      <<126497, 126498>>, <<126500, 126500>>, <<126503, 126503>>, <<126505, 126514>>, <<126516, 126519>>,
      <<126521, 126521>>, <<126523, 126523>>, <<126530, 126530>>, <<126535, 126535>>, <<126537, 126537>>,
      <<126539, 126539>>, <<126541, 126543>>, <<126545, 126546>>, <<126548, 126548>>, <<126551, 126551>>,
      <<126553, 126553>>, <<126555, 126555>>, <<126557, 126557>>, <<126559, 126559>>, <<126561, 126562>>,
      <<126564, 126564>>, <<126567, 126570>>, <<126572, 126578>>, <<126580, 126583>>, <<126585, 126588>>,
      <<126590, 126590>>, <<126592, 126601>>, <<126603, 126619>>, <<126625, 126627>>, <<126629, 126633>>,
      <<126635, 126651>>, <<127232, 127244>>, <<130032, 130041>>, <<131072, 173791>>, <<173824, 177976>>,
      <<177984, 178205>>, <<178208, 183969>>, <<183984, 191456>>, <<194560, 195101>>, <<196608, 201546>> }

is_word(c) ==
    IF c < 128
    THEN \/ Zero <= c /\ c <= Nine
         \/ CapitalA <= c /\ c <= CapitalZ
         \/ SmallA <= c /\ c <= SmallZ
         \/ c = Underscore
    ELSE in_runs(c, WordRuns)

\* The lower case of one character, as re.IGNORECASE takes it: past ASCII
\* the runs <<first, last, step, shift>> of the characters that have one.
LowerRuns ==
    {
      <<192, 214, 1, 32>>, <<216, 222, 1, 32>>, <<256, 302, 2, 1>>, <<304, 304, 1, -199>>,
      <<306, 310, 2, 1>>, <<313, 327, 2, 1>>, <<330, 374, 2, 1>>, <<376, 376, 1, -121>>,
      <<377, 381, 2, 1>>, <<385, 385, 1, 210>>, <<386, 388, 2, 1>>, <<390, 390, 1, 206>>,
      <<391, 391, 1, 1>>, <<393, 394, 1, 205>>, <<395, 395, 1, 1>>, <<398, 398, 1, 79>>,
      <<399, 399, 1, 202>>, <<400, 400, 1, 203>>, <<401, 401, 1, 1>>, <<403, 403, 1, 205>>,
      <<404, 404, 1, 207>>, <<406, 406, 1, 211>>, <<407, 407, 1, 209>>, <<408, 408, 1, 1>>,
      <<412, 412, 1, 211>>, <<413, 413, 1, 213>>, <<415, 415, 1, 214>>, <<416, 420, 2, 1>>,
      <<422, 422, 1, 218>>, <<423, 423, 1, 1>>, <<425, 425, 1, 218>>, <<428, 428, 1, 1>>,
      <<430, 430, 1, 218>>, <<431, 431, 1, 1>>, <<433, 434, 1, 217>>, <<435, 437, 2, 1>>,
      <<439, 439, 1, 219>>, <<440, 440, 1, 1>>, <<444, 444, 1, 1>>, <<452, 452, 1, 2>>,
      <<453, 453, 1, 1>>, <<455, 455, 1, 2>>, <<456, 456, 1, 1>>, <<458, 458, 1, 2>>,
      <<459, 475, 2, 1>>, <<478, 494, 2, 1>>, <<497, 497, 1, 2>>, <<498, 500, 2, 1>>,
      <<502, 502, 1, -97>>, <<503, 503, 1, -56>>, <<504, 542, 2, 1>>, <<544, 544, 1, -130>>,
      <<546, 562, 2, 1>>, <<570, 570, 1, 10795>>, <<571, 571, 1, 1>>, <<573, 573, 1, -163>>,
      <<574, 574, 1, 10792>>, <<577, 577, 1, 1>>, <<579, 579, 1, -195>>, <<580, 580, 1, 69>>,
      <<581, 581, 1, 71>>, <<582, 590, 2, 1>>, <<880, 882, 2, 1>>, <<886, 886, 1, 1>>,
      <<895, 895, 1, 116>>, <<902, 902, 1, 38>>, <<904, 906, 1, 37>>, <<908, 908, 1, 64>>,
      <<910, 911, 1, 63>>, <<913, 929, 1, 32>>, <<931, 939, 1, 32>>, <<975, 975, 1, 8>>,
      <<984, 1006, 2, 1>>, <<1012, 1012, 1, -60>>, <<1015, 1015, 1, 1>>, <<1017, 1017, 1, -7>>,
      <<1018, 1018, 1, 1>>, <<1021, 1023, 1, -130>>, <<1024, 1039, 1, 80>>, <<1040, 1071, 1, 32>>,
      <<1120, 1152, 2, 1>>, <<1162, 1214, 2, 1>>, <<1216, 1216, 1, 15>>, <<1217, 1229, 2, 1>>,
      <<1232, 1326, 2, 1>>, <<1329, 1366, 1, 48>>, <<4256, 4293, 1, 7264>>, <<4295, 4295, 1, 7264>>,
      <<4301, 4301, 1, 7264>>, <<5024, 5103, 1, 38864>>, <<5104, 5109, 1, 8>>, <<7312, 7354, 1, -3008>>,
      <<7357, 7359, 1, -3008>>, <<7680, 7828, 2, 1>>, <<7838, 7838, 1, -7615>>, <<7840, 7934, 2, 1>>,
      <<7944, 7951, 1, -8>>, <<7960, 7965, 1, -8>>, <<7976, 7983, 1, -8>>, <<7992, 7999, 1, -8>>,
      <<8008, 8013, 1, -8>>, <<8025, 8031, 2, -8>>, <<8040, 8047, 1, -8>>, <<8072, 8079, 1, -8>>,
      <<8088, 8095, 1, -8>>, <<8104, 8111, 1, -8>>, <<8120, 8121, 1, -8>>, <<8122, 8123, 1, -74>>,
      <<8124, 8124, 1, -9>>, <<8136, 8139, 1, -86>>, <<8140, 8140, 1, -9>>, <<8152, 8153, 1, -8>>,
      <<8154, 8155, 1, -100>>, <<8168, 8169, 1, -8>>, <<8170, 8171, 1, -112>>, <<8172, 8172, 1, -7>>,
      <<8184, 8185, 1, -128>>, <<8186, 8187, 1, -126>>, <<8188, 8188, 1, -9>>, <<8486, 8486, 1, -7517>>,
      <<8490, 8490, 1, -8383>>, <<8491, 8491, 1, -8262>>, <<8498, 8498, 1, 28>>, <<8544, 8559, 1, 16>>,
      <<8579, 8579, 1, 1>>, <<9398, 9423, 1, 26>>, <<11264, 11311, 1, 48>>, <<11360, 11360, 1, 1>>,
      <<11362, 11362, 1, -10743>>, <<11363, 11363, 1, -3814>>, <<11364, 11364, 1, -10727>>, <<11367, 11371, 2, 1>>,
      <<11373, 11373, 1, -10780>>, <<11374, 11374, 1, -10749>>, <<11375, 11375, 1, -10783>>, <<11376, 11376, 1, -10782>>,
      <<11378, 11378, 1, 1>>, <<11381, 11381, 1, 1>>, <<11390, 11391, 1, -10815>>, <<11392, 11490, 2, 1>>,
      <<11499, 11501, 2, 1>>, <<11506, 11506, 1, 1>>, <<42560, 42604, 2, 1>>, <<42624, 42650, 2, 1>>,
      <<42786, 42798, 2, 1>>, <<42802, 42862, 2, 1>>, <<42873, 42875, 2, 1>>, <<42877, 42877, 1, -35332>>,
      <<42878, 42886, 2, 1>>, <<42891, 42891, 1, 1>>, <<42893, 42893, 1, -42280>>, <<42896, 42898, 2, 1>>,
      <<42902, 42920, 2, 1>>, <<42922, 42922, 1, -42308>>, <<42923, 42923, 1, -42319>>, <<42924, 42924, 1, -42315>>,
      <<42925, 42925, 1, -42305>>, <<42926, 42926, 1, -42308>>, <<42928, 42928, 1, -42258>>, <<42929, 42929, 1, -42282>>,
      <<42930, 42930, 1, -42261>>, <<42931, 42931, 1, 928>>, <<42932, 42946, 2, 1>>, <<42948, 42948, 1, -48>>,
      <<42949, 42949, 1, -42307>>, <<42950, 42950, 1, -35384>>, <<42951, 42953, 2, 1>>, <<42960, 42960, 1, 1>>,
      <<42966, 42968, 2, 1>>, <<42997, 42997, 1, 1>>, <<65313, 65338, 1, 32>>, <<66560, 66599, 1, 40>>,
      <<66736, 66771, 1, 40>>, <<66928, 66964, 2, 39>>, <<66929, 66937, 2, 39>>, <<66941, 66953, 2, 39>>,
      <<66957, 66961, 2, 39>>, <<66965, 66965, 1, 39>>, <<68736, 68786, 1, 64>>, <<71840, 71871, 1, 32>>,
      <<93760, 93791, 1, 32>>, <<125184, 125217, 1, 34>> }

to_lower(c) ==
    IF c < 128
    THEN IF CapitalA <= c /\ c <= CapitalZ THEN c + (SmallA - CapitalA) ELSE c
    ELSE IF \E r \in LowerRuns : r[1] <= c /\ c <= r[2] /\ (c - r[1]) % r[3] = 0
    THEN LET r == CHOOSE r \in LowerRuns :
                      r[1] <= c /\ c <= r[2] /\ (c - r[1]) % r[3] = 0
         IN c + r[4]
    ELSE c

\* str.lower(): the lower case of each character, but a capital I with dot
\* above gives two characters, and a capital sigma gives the final sigma
\* when it ends a word: the nearest character before it that is not
\* case-ignorable is cased, and the nearest such character after it, if
\* any, is not. CasedRuns holds the cased characters that are not
\* case-ignorable.
CasedRuns ==
    {
      <<65, 90>>, <<97, 122>>, <<170, 170>>, <<181, 181>>, <<186, 186>>,
      <<192, 214>>, <<216, 246>>, <<248, 442>>, <<444, 447>>, <<452, 659>>,
      <<661, 687>>, <<880, 883>>, <<886, 887>>, <<891, 893>>, <<895, 895>>,
      <<902, 902>>, <<904, 906>>, <<908, 908>>, <<910, 929>>, <<931, 1013>>,
      <<1015, 1153>>, <<1162, 1327>>, <<1329, 1366>>, <<1376, 1416>>, <<4256, 4293>>,
      <<4295, 4295>>, <<4301, 4301>>, <<4304, 4346>>, <<4349, 4351>>, <<5024, 5109>>,
      <<5112, 5117>>, <<7296, 7304>>, <<7312, 7354>>, <<7357, 7359>>, <<7424, 7467>>,
      <<7531, 7543>>, <<7545, 7578>>, <<7680, 7957>>, <<7960, 7965>>, <<7968, 8005>>,
      <<8008, 8013>>, <<8016, 8023>>, <<8025, 8025>>, <<8027, 8027>>, <<8029, 8029>>,
      <<8031, 8061>>, <<8064, 8116>>, <<8118, 8124>>, <<8126, 8126>>, <<8130, 8132>>,
      <<8134, 8140>>, <<8144, 8147>>, <<8150, 8155>>, <<8160, 8172>>, <<8178, 8180>>,
      <<8182, 8188>>, <<8450, 8450>>, <<8455, 8455>>, <<8458, 8467>>, <<8469, 8469>>,
      <<8473, 8477>>, <<8484, 8484>>, <<8486, 8486>>, <<8488, 8488>>, <<8490, 8493>>,
      <<8495, 8500>>, <<8505, 8505>>, <<8508, 8511>>, <<8517, 8521>>, <<8526, 8526>>,
      <<8544, 8575>>, <<8579, 8580>>, <<9398, 9449>>, <<11264, 11387>>, <<11390, 11492>>,
      <<11499, 11502>>, <<11506, 11507>>, <<11520, 11557>>, <<11559, 11559>>, <<11565, 11565>>,
      <<42560, 42605>>, <<42624, 42651>>, <<42786, 42863>>, <<42865, 42887>>, <<42891, 42894>>,
      <<42896, 42954>>, <<42960, 42961>>, <<42963, 42963>>, <<42965, 42969>>, <<42997, 42998>>,
      <<43002, 43002>>, <<43824, 43866>>, <<43872, 43880>>, <<43888, 43967>>, <<64256, 64262>>,
      <<64275, 64279>>, <<65313, 65338>>, <<65345, 65370>>, <<66560, 66639>>, <<66736, 66771>>,
      <<66776, 66811>>, <<66928, 66938>>, <<66940, 66954>>, <<66956, 66962>>, <<66964, 66965>>,
      <<66967, 66977>>, <<66979, 66993>>, <<66995, 67001>>, <<67003, 67004>>, <<68736, 68786>>,
      <<68800, 68850>>, <<71840, 71903>>, <<93760, 93823>>, <<119808, 119892>>, <<119894, 119964>>,
      <<119966, 119967>>, <<119970, 119970>>, <<119973, 119974>>, <<119977, 119980>>, <<119982, 119993>>,
      <<119995, 119995>>, <<119997, 120003>>, <<120005, 120069>>, <<120071, 120074>>, <<120077, 120084>>,
      <<120086, 120092>>, <<120094, 120121>>, <<120123, 120126>>, <<120128, 120132>>, <<120134, 120134>>,
      <<120138, 120144>>, <<120146, 120485>>, <<120488, 120512>>, <<120514, 120538>>, <<120540, 120570>>,
      <<120572, 120596>>, <<120598, 120628>>, <<120630, 120654>>, <<120656, 120686>>, <<120688, 120712>>,
      <<120714, 120744>>, <<120746, 120770>>, <<120772, 120779>>, <<122624, 122633>>, <<122635, 122654>>,
      <<125184, 125251>>, <<127280, 127305>>, <<127312, 127337>>, <<127344, 127369>> }

CaseIgnorableRuns ==
    {
      <<39, 39>>, <<46, 46>>, <<58, 58>>, <<94, 94>>, <<96, 96>>,
      <<168, 168>>, <<173, 173>>, <<175, 175>>, <<180, 180>>, <<183, 184>>,
      <<688, 879>>, <<884, 885>>, <<890, 890>>, <<900, 901>>, <<903, 903>>,
      <<1155, 1161>>, <<1369, 1369>>, <<1375, 1375>>, <<1425, 1469>>, <<1471, 1471>>,
      <<1473, 1474>>, <<1476, 1477>>, <<1479, 1479>>, <<1524, 1524>>, <<1536, 1541>>,
      <<1552, 1562>>, <<1564, 1564>>, <<1600, 1600>>, <<1611, 1631>>, <<1648, 1648>>,
      <<1750, 1757>>, <<1759, 1768>>, <<1770, 1773>>, <<1807, 1807>>, <<1809, 1809>>,
      <<1840, 1866>>, <<1958, 1968>>, <<2027, 2037>>, <<2042, 2042>>, <<2045, 2045>>,
      <<2070, 2093>>, <<2137, 2139>>, <<2184, 2184>>, <<2192, 2193>>, <<2200, 2207>>,
      <<2249, 2306>>, <<2362, 2362>>, <<2364, 2364>>, <<2369, 2376>>, <<2381, 2381>>,
      <<2385, 2391>>, <<2402, 2403>>, <<2417, 2417>>, <<2433, 2433>>, <<2492, 2492>>,
      <<2497, 2500>>, <<2509, 2509>>, <<2530, 2531>>, <<2558, 2558>>, <<2561, 2562>>,
      <<2620, 2620>>, <<2625, 2626>>, <<2631, 2632>>, <<2635, 2637>>, <<2641, 2641>>,
      <<2672, 2673>>, <<2677, 2677>>, <<2689, 2690>>, <<2748, 2748>>, <<2753, 2757>>,
      <<2759, 2760>>, <<2765, 2765>>, <<2786, 2787>>, <<2810, 2815>>, <<2817, 2817>>,
      <<2876, 2876>>, <<2879, 2879>>, <<2881, 2884>>, <<2893, 2893>>, <<2901, 2902>>,
      <<2914, 2915>>, <<2946, 2946>>, <<3008, 3008>>, <<3021, 3021>>, <<3072, 3072>>,
      <<3076, 3076>>, <<3132, 3132>>, <<3134, 3136>>, <<3142, 3144>>, <<3146, 3149>>,
      <<3157, 3158>>, <<3170, 3171>>, <<3201, 3201>>, <<3260, 3260>>, <<3263, 3263>>,
      <<3270, 3270>>, <<3276, 3277>>, <<3298, 3299>>, <<3328, 3329>>, <<3387, 3388>>,
      <<3393, 3396>>, <<3405, 3405>>, <<3426, 3427>>, <<3457, 3457>>, <<3530, 3530>>,
      <<3538, 3540>>, <<3542, 3542>>, <<3633, 3633>>, <<3636, 3642>>, <<3654, 3662>>,
      <<3761, 3761>>, <<3764, 3772>>, <<3782, 3782>>, <<3784, 3789>>, <<3864, 3865>>,
      <<3893, 3893>>, <<3895, 3895>>, <<3897, 3897>>, <<3953, 3966>>, <<3968, 3972>>,
      <<3974, 3975>>, <<3981, 3991>>, <<3993, 4028>>, <<4038, 4038>>, <<4141, 4144>>,
      <<4146, 4151>>, <<4153, 4154>>, <<4157, 4158>>, <<4184, 4185>>, <<4190, 4192>>,
      <<4209, 4212>>, <<4226, 4226>>, <<4229, 4230>>, <<4237, 4237>>, <<4253, 4253>>,
      <<4348, 4348>>, <<4957, 4959>>, <<5906, 5908>>, <<5938, 5939>>, <<5970, 5971>>,
      <<6002, 6003>>, <<6068, 6069>>, <<6071, 6077>>, <<6086, 6086>>, <<6089, 6099>>,
      <<6103, 6103>>, <<6109, 6109>>, <<6155, 6159>>, <<6211, 6211>>, <<6277, 6278>>,
      <<6313, 6313>>, <<6432, 6434>>, <<6439, 6440>>, <<6450, 6450>>, <<6457, 6459>>,
      <<6679, 6680>>, <<6683, 6683>>, <<6742, 6742>>, <<6744, 6750>>, <<6752, 6752>>,
      <<6754, 6754>>, <<6757, 6764>>, <<6771, 6780>>, <<6783, 6783>>, <<6823, 6823>>,
      <<6832, 6862>>, <<6912, 6915>>, <<6964, 6964>>, <<6966, 6970>>, <<6972, 6972>>,
      <<6978, 6978>>, <<7019, 7027>>, <<7040, 7041>>, <<7074, 7077>>, <<7080, 7081>>,
      <<7083, 7085>>, <<7142, 7142>>, <<7144, 7145>>, <<7149, 7149>>, <<7151, 7153>>,
      <<7212, 7219>>, <<7222, 7223>>, <<7288, 7293>>, <<7376, 7378>>, <<7380, 7392>>,
      <<7394, 7400>>, <<7405, 7405>>, <<7412, 7412>>, <<7416, 7417>>, <<7468, 7530>>,
      <<7544, 7544>>, <<7579, 7679>>, <<8125, 8125>>, <<8127, 8129>>, <<8141, 8143>>,
      <<8157, 8159>>, <<8173, 8175>>, <<8189, 8190>>, <<8203, 8207>>, <<8216, 8217>>,
      <<8228, 8228>>, <<8231, 8231>>, <<8234, 8238>>, <<8288, 8292>>, <<8294, 8303>>,
      <<8305, 8305>>, <<8319, 8319>>, <<8336, 8348>>, <<8400, 8432>>, <<11388, 11389>>,
      <<11503, 11505>>, <<11631, 11631>>, <<11647, 11647>>, <<11744, 11775>>, <<11823, 11823>>,
      <<12293, 12293>>, <<12330, 12333>>, <<12337, 12341>>, <<12347, 12347>>, <<12441, 12446>>,
      <<12540, 12542>>, <<40981, 40981>>, <<42232, 42237>>, <<42508, 42508>>, <<42607, 42610>>,
      <<42612, 42621>>, <<42623, 42623>>, <<42652, 42655>>, <<42736, 42737>>, <<42752, 42785>>,
      <<42864, 42864>>, <<42888, 42890>>, <<42994, 42996>>, <<43000, 43001>>, <<43010, 43010>>,
      <<43014, 43014>>, <<43019, 43019>>, <<43045, 43046>>, <<43052, 43052>>, <<43204, 43205>>,
      <<43232, 43249>>, <<43263, 43263>>, <<43302, 43309>>, <<43335, 43345>>, <<43392, 43394>>,
      <<43443, 43443>>, <<43446, 43449>>, <<43452, 43453>>, <<43471, 43471>>, <<43493, 43494>>,
      <<43561, 43566>>, <<43569, 43570>>, <<43573, 43574>>, <<43587, 43587>>, <<43596, 43596>>,
      <<43632, 43632>>, <<43644, 43644>>, <<43696, 43696>>, <<43698, 43700>>, <<43703, 43704>>,
      <<43710, 43711>>, <<43713, 43713>>, <<43741, 43741>>, <<43756, 43757>>, <<43763, 43764>>,
      <<43766, 43766>>, <<43867, 43871>>, <<43881, 43883>>, <<44005, 44005>>, <<44008, 44008>>,
      <<44013, 44013>>, <<64286, 64286>>, <<64434, 64450>>, <<65024, 65039>>, <<65043, 65043>>,
      <<65056, 65071>>, <<65106, 65106>>, <<65109, 65109>>, <<65279, 65279>>, <<65287, 65287>>,
      <<65294, 65294>>, <<65306, 65306>>, <<65342, 65342>>, <<65344, 65344>>, <<65392, 65392>>,
      <<65438, 65439>>, <<65507, 65507>>, <<65529, 65531>>, <<66045, 66045>>, <<66272, 66272>>,
      <<66422, 66426>>, <<67456, 67461>>, <<67463, 67504>>, <<67506, 67514>>, <<68097, 68099>>,
      <<68101, 68102>>, <<68108, 68111>>, <<68152, 68154>>, <<68159, 68159>>, <<68325, 68326>>,
      <<68900, 68903>>, <<69291, 69292>>, <<69446, 69456>>, <<69506, 69509>>, <<69633, 69633>>,
      <<69688, 69702>>, <<69744, 69744>>, <<69747, 69748>>, <<69759, 69761>>, <<69811, 69814>>,
      <<69817, 69818>>, <<69821, 69821>>, <<69826, 69826>>, <<69837, 69837>>, <<69888, 69890>>,
      <<69927, 69931>>, <<69933, 69940>>, <<70003, 70003>>, <<70016, 70017>>, <<70070, 70078>>,
      <<70089, 70092>>, <<70095, 70095>>, <<70191, 70193>>, <<70196, 70196>>, <<70198, 70199>>,
      <<70206, 70206>>, <<70367, 70367>>, <<70371, 70378>>, <<70400, 70401>>, <<70459, 70460>>,
      <<70464, 70464>>, <<70502, 70508>>, <<70512, 70516>>, <<70712, 70719>>, <<70722, 70724>>,
      <<70726, 70726>>, <<70750, 70750>>, <<70835, 70840>>, <<70842, 70842>>, <<70847, 70848>>,
      <<70850, 70851>>, <<71090, 71093>>, <<71100, 71101>>, <<71103, 71104>>, <<71132, 71133>>,
      <<71219, 71226>>, <<71229, 71229>>, <<71231, 71232>>, <<71339, 71339>>, <<71341, 71341>>,
      <<71344, 71349>>, <<71351, 71351>>, <<71453, 71455>>, <<71458, 71461>>, <<71463, 71467>>,
      <<71727, 71735>>, <<71737, 71738>>, <<71995, 71996>>, <<71998, 71998>>, <<72003, 72003>>,
      <<72148, 72151>>, <<72154, 72155>>, <<72160, 72160>>, <<72193, 72202>>, <<72243, 72248>>,
      <<72251, 72254>>, <<72263, 72263>>, <<72273, 72278>>, <<72281, 72283>>, <<72330, 72342>>,
      <<72344, 72345>>, <<72752, 72758>>, <<72760, 72765>>, <<72767, 72767>>, <<72850, 72871>>,
      <<72874, 72880>>, <<72882, 72883>>, <<72885, 72886>>, <<73009, 73014>>, <<73018, 73018>>,
      <<73020, 73021>>, <<73023, 73029>>, <<73031, 73031>>, <<73104, 73105>>, <<73109, 73109>>,
      <<73111, 73111>>, <<73459, 73460>>, <<78896, 78904>>, <<92912, 92916>>, <<92976, 92982>>,
      <<92992, 92995>>, <<94031, 94031>>, <<94095, 94111>>, <<94176, 94177>>, <<94179, 94180>>,
      <<110576, 110579>>, <<110581, 110587>>, <<110589, 110590>>, <<113821, 113822>>, <<113824, 113827>>,
      <<118528, 118573>>, <<118576, 118598>>, <<119143, 119145>>, <<119155, 119170>>, <<119173, 119179>>,
      <<119210, 119213>>, <<119362, 119364>>, <<121344, 121398>>, <<121403, 121452>>, <<121461, 121461>>,
      <<121476, 121476>>, <<121499, 121503>>, <<121505, 121519>>, <<122880, 122886>>, <<122888, 122904>>,
      <<122907, 122913>>, <<122915, 122916>>, <<122918, 122922>>, <<123184, 123197>>, <<123566, 123566>>,
      <<123628, 123631>>, <<125136, 125142>>, <<125252, 125259>>, <<127995, 127999>>, <<917505, 917505>>,
      <<917536, 917631>>, <<917760, 917999>> }

RECURSIVE cased_before(_, _)
cased_before(str, j) ==
    IF j < 1 THEN FALSE
    ELSE IF in_runs(str[j], CaseIgnorableRuns) THEN cased_before(str, j - 1)
    ELSE in_runs(str[j], CasedRuns)
RECURSIVE cased_after(_, _)
cased_after(str, j) ==
    IF j > Len(str) THEN FALSE
    ELSE IF in_runs(str[j], CaseIgnorableRuns) THEN cased_after(str, j + 1)
    ELSE in_runs(str[j], CasedRuns)
final_sigma(str, i) == cased_before(str, i - 1) /\ ~cased_after(str, i + 1)

RECURSIVE lower_from(_, _)
lower_from(str, i) ==
    IF i > Len(str) THEN <<>>
    ELSE (IF str[i] = CapitalIDotAbove THEN <<to_lower(str[i]), CombiningDotAbove>>
          ELSE IF str[i] = CapitalSigma
          THEN <<IF final_sigma(str, i) THEN FinalSigma ELSE SmallSigma>>
          ELSE <<to_lower(str[i])>>) \o lower_from(str, i + 1)
lower(str) == lower_from(str, 1)

\* The character classes of the pattern under re.IGNORECASE: [\d.] and
\* [a-f0-9]; a letter of the pattern matches the characters whose lower
\* case it is.
is_digit_or_dot(c) == is_digit(c) \/ c = Dot
is_hex(c) ==
    \/ Zero <= c /\ c <= Nine
    \/ SmallA <= to_lower(c) /\ to_lower(c) <= SmallF
all_of(str, class(_)) == str # <<>> /\ \A i \in DOMAIN str : class(str[i])
matches_ignorecase(str, word) ==
    /\ Len(str) = Len(word)
    /\ \A i \in DOMAIN str : to_lower(str[i]) = word[i]

\* The first position >= from of c in str, 0 when there is none.
find(str, c, from) ==
    IF \E i \in from .. Len(str) : str[i] = c
    THEN CHOOSE i \in from .. Len(str) :
             str[i] = c /\ \A j \in from .. (i - 1) : str[j] # c
    ELSE 0

front == Codes(<<"f", "r", "o", "n", "t">>)
back  == Codes(<<"b", "a", "c", "k">>)

\* ------------------------------------------------------- parse_filename
NoMatch == [ok |-> FALSE, grade |-> <<>>, unique_id |-> <<>>,
            side |-> <<>>, extension |-> <<>>]

\* r'^([\d.]+)_([a-f0-9]+)_(front|back)\.(\w+)$' with re.IGNORECASE: the
\* grade runs to the first "_", the unique id to the second, the side is
\* front or back in any case and is returned by .lower(), the extension is
\* the rest after the dot; $ matches at the end and before a newline that
\* ends the name.
before_last_newline(str) ==
    IF str # <<>> /\ str[Len(str)] = Newline
    THEN SubSeq(str, 1, Len(str) - 1) ELSE str
parse_side(rest, word) ==
    /\ Len(rest) > Len(word) + 1
    /\ matches_ignorecase(SubSeq(rest, 1, Len(word)), word)
    /\ rest[Len(word) + 1] = Dot
    /\ all_of(before_last_newline(SubSeq(rest, Len(word) + 2, Len(rest))), is_word)
parse_filename(filename) ==
    LET u1 == find(filename, Underscore, 1)
        u2 == IF u1 = 0 THEN 0 ELSE find(filename, Underscore, u1 + 1)
    IN
    IF u1 = 0 \/ u2 = 0 THEN NoMatch
    ELSE LET grade == SubSeq(filename, 1, u1 - 1)
             unique_id == SubSeq(filename, u1 + 1, u2 - 1)
             rest == SubSeq(filename, u2 + 1, Len(filename))
             matched == IF parse_side(rest, front) THEN front
                        ELSE IF parse_side(rest, back) THEN back ELSE <<>>
         IN
         IF all_of(grade, is_digit_or_dot) /\ all_of(unique_id, is_hex)
            /\ matched # <<>>
         THEN [ok |-> TRUE, grade |-> grade, unique_id |-> unique_id,
               side |-> lower(SubSeq(rest, 1, Len(matched))),
               extension |->
                   before_last_newline(SubSeq(rest, Len(matched) + 2, Len(rest)))]
         ELSE NoMatch

\* ----------------------------------------------------------- is_grade_10
\* float() first writes the text in ASCII: a decimal digit of any script
\* becomes its ASCII digit and a blank of any script a space; a character
\* past ASCII that is neither makes the text unreadable.
SpaceChars ==
    {9, 10, 11, 12, 13, 32, 133, 160, 5760, 8192, 8193, 8194, 8195, 8196, 8197,
     8198, 8199, 8200, 8201, 8202, 8232, 8233, 8239, 8287, 12288}
to_ascii_char(c) ==
    IF c < 128 THEN c
    ELSE IF c \in SpaceChars THEN Space
    ELSE IF is_digit(c) THEN Zero + digit_value(c)
    ELSE QuestionMark
to_ascii(str) == [i \in DOMAIN str |-> to_ascii_char(str[i])]

\* The value of a run of ASCII digits.
RECURSIVE digits_value(_)
digits_value(str) ==
    IF str = <<>> THEN 0
    ELSE 10 * digits_value(SubSeq(str, 1, Len(str) - 1)) + (str[Len(str)] - Zero)

\* float() takes the underscores out of the text; each must stand between
\* two digits.
ascii_digit(c) == Zero <= c /\ c <= Nine
underscores_ok(str) ==
    \A i \in DOMAIN str :
        str[i] = Underscore =>
            /\ i > 1 /\ ascii_digit(str[i - 1])
            /\ i < Len(str) /\ ascii_digit(str[i + 1])
not_underscore(c) == c # Underscore

all_digits(str) == \A i \in DOMAIN str : ascii_digit(str[i])

\* The digits without their leading zeros.
strip_zeros(digits) ==
    IF \A i \in DOMAIN digits : digits[i] = Zero THEN <<>>
    ELSE LET k == CHOOSE i \in DOMAIN digits :
                      digits[i] # Zero /\ \A j \in 1 .. (i - 1) : digits[j] = Zero
         IN SubSeq(digits, k, Len(digits))

\* float() drops the blanks around the text.
Whitespace == {c \in SpaceChars : c < 128}
strip_space(text) ==
    IF \A i \in DOMAIN text : text[i] \in Whitespace THEN <<>>
    ELSE LET a == CHOOSE i \in DOMAIN text :
                      text[i] \notin Whitespace
                      /\ \A j \in 1 .. (i - 1) : text[j] \in Whitespace
             b == CHOOSE i \in DOMAIN text :
                      text[i] \notin Whitespace
                      /\ \A j \in (i + 1) .. Len(text) : text[j] \in Whitespace
         IN SubSeq(text, a, b)

\* An optional sign in front of a number or of an exponent.
has_sign(text) == text # <<>> /\ text[1] \in {Plus, Minus}
unsigned(text) == IF has_sign(text) THEN SubSeq(text, 2, Len(text)) ELSE text
negative(text) == has_sign(text) /\ text[1] = Minus

\* The decimal text float() reads, in its parts: an optional sign, digits,
\* an optional point and more digits (one digit at least), and an optional
\* exponent, e or E, an optional sign and digits. inf and nan are read by
\* float() and are not 10, like a text it raises on.
float_parts(text) ==
    LET number == unsigned(text)
        e_at == IF \E i \in DOMAIN number : number[i] \in {SmallE, CapitalE}
                THEN CHOOSE i \in DOMAIN number :
                         number[i] \in {SmallE, CapitalE}
                         /\ \A j \in 1 .. (i - 1) : number[j] \notin {SmallE, CapitalE}
                ELSE 0
        mantissa == IF e_at = 0 THEN number ELSE SubSeq(number, 1, e_at - 1)
        signed_exponent ==
            IF e_at = 0 THEN <<>> ELSE SubSeq(number, e_at + 1, Len(number))
        exponent == unsigned(signed_exponent)
        dot == find(mantissa, Dot, 1)
        int_part == IF dot = 0 THEN mantissa ELSE SubSeq(mantissa, 1, dot - 1)
        frac == IF dot = 0 THEN <<>> ELSE SubSeq(mantissa, dot + 1, Len(mantissa))
    IN [ok |-> /\ all_digits(int_part)
               /\ all_digits(frac)
               /\ int_part \o frac # <<>>
               /\ e_at # 0 => (exponent # <<>> /\ all_digits(exponent)),
        negative |-> negative(text),
        int_part |-> int_part, frac |-> frac,
        exponent |-> exponent, exponent_negative |-> negative(signed_exponent)]

\* The decimal digits of 2^-50 and of 1 - 2^-50 after the point. The
\* doubles next to 10.0 are 10 - 2^-49 and 10 + 2^-49, and 10.0 has an even
\* mantissa: float() rounds to 10.0 exactly the values from 10 - 2^-50 to
\* 10 + 2^-50, both ends included.
HalfUlpOf10 ==
    << 48, 48, 48, 48, 48, 48, 48, 48, 48, 48,
       48, 48, 48, 48, 48, 56, 56, 56, 49, 55,
       56, 52, 49, 57, 55, 48, 48, 49, 50, 53,
       50, 51, 50, 51, 51, 56, 57, 48, 53, 51,
       51, 52, 52, 55, 50, 54, 53, 54, 50, 53 >>
OneLessHalfUlp ==
    << 57, 57, 57, 57, 57, 57, 57, 57, 57, 57,
       57, 57, 57, 57, 57, 49, 49, 49, 56, 50,
       49, 53, 56, 48, 50, 57, 57, 56, 55, 52,
       55, 54, 55, 54, 54, 49, 48, 57, 52, 54,
       54, 53, 53, 50, 55, 51, 52, 51, 55, 53 >>

\* x <= y for two runs of digits after the point, compared from digit i on.
RECURSIVE frac_leq_from(_, _, _)
frac_leq_from(x, y, i) ==
    IF i > Len(x) THEN TRUE
    ELSE IF i > Len(y) THEN \A j \in i .. Len(x) : x[j] = Zero
    ELSE IF x[i] = y[i] THEN frac_leq_from(x, y, i + 1)
    ELSE x[i] < y[i]
frac_leq(x, y) == frac_leq_from(x, y, 1)

\* float(grade_str) == 10.0, False when float() raises. The value is taken
\* as its significant digits and the number of them before the point; it
\* rounds to 10.0 when it is 10 and a fraction of at most 2^-50, or 9 and a
\* fraction of at least 1 - 2^-50. (An exponent of more than 9 digits puts
\* the point past any text.)
is_grade_10(grade_str) ==
    LET ascii == to_ascii(grade_str)
        parts == float_parts(strip_space(SelectSeq(ascii, not_underscore)))
        all == parts.int_part \o parts.frac
        digits == strip_zeros(all)
        exponent == strip_zeros(parts.exponent)
        shift == IF parts.exponent_negative THEN 0 - digits_value(exponent)
                 ELSE digits_value(exponent)
        point == Len(parts.int_part) + shift - (Len(all) - Len(digits))
    IN
    /\ underscores_ok(ascii)
    /\ parts.ok
    /\ ~parts.negative
    /\ digits # <<>>
    /\ Len(exponent) <= 9
    /\ \/ /\ point = 2
          /\ digits[1] = Zero + 1
          /\ Len(digits) >= 2 => digits[2] = Zero
          /\ frac_leq(SubSeq(digits, 3, Len(digits)), HalfUlpOf10)
       \/ /\ point = 1
          /\ digits[1] = Nine
          /\ frac_leq(OneLessHalfUlp, SubSeq(digits, 2, Len(digits)))

\* ------------------------------------------------- load_image_directory
\* Path(name).suffix: from the last dot on, "" when there is no dot past the
\* first character or the name ends with the dot.
RECURSIVE last_dot(_, _)
last_dot(name, i) ==
    IF i < 1 THEN 0 ELSE IF name[i] = Dot THEN i ELSE last_dot(name, i - 1)
path_suffix(name) ==
    LET d == last_dot(name, Len(name)) IN
    IF d <= 1 \/ d = Len(name) THEN <<>> ELSE SubSeq(name, d, Len(name))

ImageSuffixes == { Codes(<<".", "j", "p", "g">>), Codes(<<".", "j", "p", "e", "g">>),
                   Codes(<<".", "p", "n", "g">>) }
is_image_file(name) == lower(path_suffix(name)) \in ImageSuffixes

\* The file enters the grouping: an image file whose name parses, with a
\* grade equal to 10.
scanned(name) ==
    /\ is_image_file(name)
    /\ LET p == parse_filename(name) IN p.ok /\ is_grade_10(p.grade)

\* A file of the directory as the scan loop sees it: its name, the parse of
\* the name and whether the file enters the grouping. The loop computes the
\* three from the name alone.
file_of(name) ==
    [name |-> name, parsed |-> parse_filename(name), scanned |-> scanned(name)]
files_of(names) == {file_of(name) : name \in names}

\* image_dict as the sequence of its values in insertion order. None is <<>>.
dict_index(image_dict, unique_id) ==
    IF \E i \in DOMAIN image_dict : image_dict[i].unique_id = unique_id
    THEN CHOOSE i \in DOMAIN image_dict : image_dict[i].unique_id = unique_id
    ELSE 0

\* One turn of the scan loop.
scan_file_last_extension(image_dict, file) ==
    IF ~file.scanned THEN image_dict
    ELSE LET p == file.parsed
             at == dict_index(image_dict, p.unique_id)
             d == IF at = 0
                  THEN Append(image_dict,
                              [grade |-> p.grade, unique_id |-> p.unique_id,
                               extension |-> p.extension,
                               front |-> <<>>, back |-> <<>>])
                  ELSE [image_dict EXCEPT ![at].extension = p.extension]
             j == IF at = 0 THEN Len(d) ELSE at
         IN IF p.side = front
            THEN [d EXCEPT ![j].front = file.name]
            ELSE [d EXCEPT ![j].back = file.name]
scan_file(image_dict, file) ==
    IF ~file.scanned THEN image_dict
    ELSE LET p == file.parsed
             at == dict_index(image_dict, p.unique_id)
             d == IF at = 0
                  THEN Append(image_dict,
                              [grade |-> p.grade, unique_id |-> p.unique_id,
                               extension |-> p.extension,
                               front |-> <<>>, back |-> <<>>])
                  ELSE image_dict
             j == IF at = 0 THEN Len(d) ELSE at
         IN IF p.side = front
            THEN [d EXCEPT ![j].front = file.name]
            ELSE [d EXCEPT ![j].back = file.name]

RECURSIVE scan(_, _, _)
scan(listing, k, image_dict) ==
    IF k > Len(listing) THEN image_dict
    ELSE scan(listing, k + 1, scan_file(image_dict, listing[k]))

\* Only the pairs that have both sides.
is_pair_front_only(data) == data.front # <<>>
is_pair(data) == data.front # <<>> /\ data.back # <<>>

\* Python's order of two strings: by code point, a proper prefix first.
RECURSIVE str_less(_, _)
str_less(x, y) ==
    IF y = <<>> THEN FALSE
    ELSE IF x = <<>> THEN TRUE
    ELSE IF x[1] # y[1] THEN x[1] < y[1]
    ELSE str_less(Tail(x), Tail(y))

\* list.sort(key=unique_id): a stable insertion of each pair in turn.
RECURSIVE insert_pair(_, _)
insert_pair(sorted, data) ==
    IF sorted = <<>> THEN <<data>>
    ELSE IF str_less(data.unique_id, sorted[Len(sorted)].unique_id)
    THEN Append(insert_pair(SubSeq(sorted, 1, Len(sorted) - 1), data),
                sorted[Len(sorted)])
    ELSE Append(sorted, data)
RECURSIVE sort_pairs_from(_, _, _)
sort_pairs_from(pairs, k, sorted) ==
    IF k > Len(pairs) THEN sorted
    ELSE sort_pairs_from(pairs, k + 1, insert_pair(sorted, pairs[k]))
sort_pairs_unsorted(pairs) == pairs
sort_pairs(pairs) == sort_pairs_from(pairs, 1, <<>>)

Reclass ==
    [card_pairs |-> card_pairs, source_dir |-> source_dir,
     cards_loaded |-> cards_loaded, card_index |-> card_index,
     classified_count |-> classified_count, directory |-> directory,
     message |-> message]

\* load_image_directory for a directory that exists, and the "Loaded n card
\* pairs" report of its caller; listing is the sequence of the files in the
\* order in which iterdir yields them.
load_image_directory(R, directory_path, listing) ==
    LET image_dict == scan(listing, 1, <<>>) IN
    [R EXCEPT !.card_pairs = sort_pairs(SelectSeq(image_dict, is_pair)),
              !.source_dir = directory_path,
              !.cards_loaded = TRUE,
              !.card_index = 0,
              !.classified_count = 0,
              !.message = "loaded"]


\* ------------------------------------------------------ rename_card_pair
\* The two labels of the classify buttons.
Label10m == Codes(<<"1", "0", "m">>)
Label10p == Codes(<<"1", "0", "p">>)
Labels == {Label10m, Label10p}

\* f"{new_grade}_{unique_id}_{side}.{extension}"
new_name_keep_grade(new_grade, card_pair, side) ==
    card_pair.grade \o <<Underscore>> \o card_pair.unique_id \o <<Underscore>> \o side
                    \o <<Dot>> \o card_pair.extension
new_name(new_grade, card_pair, side) ==
    new_grade \o <<Underscore>> \o card_pair.unique_id \o <<Underscore>> \o side
              \o <<Dot>> \o card_pair.extension

\* Path.rename on a POSIX file system: it raises when the old file does not
\* exist, and replaces a file that already has the new name.
rename_ok(dir, old) == old \in dir
rename(dir, old, new) == (dir \ {old}) \cup {new}

\* The "move to next card" of rename_card_pair and of the Skip button.
next_card_unclamped(R) == R.card_index + 1
next_card(R) ==
    IF R.card_index < Len(R.card_pairs) - 1 THEN R.card_index + 1 ELSE R.card_index

\* rename_card_pair on the pair at card_index (the handlers pass
\* current_card), with the report of the script run: the error of the
\* except branch, or the success of the button handler. The front file is
\* renamed first; when the rename of the back file raises, the except
\* branch reports the error and returns, and the front file keeps its new
\* name.
rename_card_pair_counts_failures(R, new_grade) ==
    LET i == R.card_index + 1
        card_pair == R.card_pairs[i]
        new_front_name == new_name(new_grade, card_pair, front)
        new_back_name == new_name(new_grade, card_pair, back)
    IN
    IF ~rename_ok(R.directory, card_pair.front)
    THEN [R EXCEPT !.message = "rename_error", !.classified_count = @ + 1]
    ELSE LET renamed_front == rename(R.directory, card_pair.front, new_front_name) IN
         IF ~rename_ok(renamed_front, card_pair.back)
         THEN [R EXCEPT !.directory = renamed_front, !.message = "rename_error",
                        !.card_pairs[i].grade = new_grade,
                        !.card_pairs[i].front = new_front_name]
         ELSE [R EXCEPT !.message = "classified",
                        !.directory = rename(renamed_front, card_pair.back, new_back_name),
                        !.card_pairs[i].grade = new_grade,
                        !.card_pairs[i].front = new_front_name,
                        !.card_pairs[i].back = new_back_name,
                        !.classified_count = @ + 1,
                        !.card_index = next_card(R)]
rename_card_pair(R, new_grade) ==
    LET i == R.card_index + 1
        card_pair == R.card_pairs[i]
        new_front_name == new_name(new_grade, card_pair, front)
        new_back_name == new_name(new_grade, card_pair, back)
    IN
    IF ~rename_ok(R.directory, card_pair.front)
    THEN [R EXCEPT !.message = "rename_error"]
    ELSE LET renamed_front == rename(R.directory, card_pair.front, new_front_name) IN
         IF ~rename_ok(renamed_front, card_pair.back)
         THEN [R EXCEPT !.directory = renamed_front, !.message = "rename_error"]
         ELSE [R EXCEPT !.message = "classified",
                        !.directory = rename(renamed_front, card_pair.back, new_back_name),
                        !.card_pairs[i].grade = new_grade,
                        !.card_pairs[i].front = new_front_name,
                        !.card_pairs[i].back = new_back_name,
                        !.classified_count = @ + 1,
                        !.card_index = next_card(R)]

\* --------------------------------------------------------------- actions
RBecomes(R) ==
    /\ card_pairs' = R.card_pairs
    /\ source_dir' = R.source_dir
    /\ cards_loaded' = R.cards_loaded
    /\ card_index' = R.card_index
    /\ classified_count' = R.classified_count
    /\ directory' = R.directory
    /\ message' = R.message
    /\ UNCHANGED curationVars

\* The texts of the Image Directory Path box: a path that does not exist,
\* the path of a regular file, and the directory of the cards.
MissingPath == "/missing"
FilePath == "/file"
CardsDir == "/cards"
DirectoryPaths == {MissingPath, FilePath, CardsDir}
path_exists(path) == path \in {FilePath, CardsDir}
path_is_dir(path) == path = CardsDir

\* Every order in which iterdir may yield the files of a set.
RECURSIVE Listings(_)
Listings(fs) ==
    IF fs = {} THEN {<<>>}
    ELSE UNION { {<<f>> \o l : l \in Listings(fs \ {f})} : f \in fs }

\* The sessions load_image_directory may give on the files of a directory:
\* one for every order of the scan.
load_outcomes(R, directory_path, names) ==
    {load_image_directory(R, directory_path, listing) :
         listing \in Listings(files_of(names))}

\* "Load Images" with the path directory_path. A path that does not exist
\* is reported invalid. On the path of a regular file iterdir raises
\* NotADirectoryError, which nothing catches: the script run ends with the
\* session as it was and with no report of the program. A directory is
\* scanned.
LoadImages(directory_path) ==
    \/ /\ ~path_exists(directory_path)
       /\ RBecomes([Reclass EXCEPT !.message = "invalid_path"])
    \/ /\ path_exists(directory_path)
       /\ ~path_is_dir(directory_path)
       /\ RBecomes([Reclass EXCEPT !.message = ""])
    \/ /\ path_is_dir(directory_path)
       /\ \E loaded \in load_outcomes(Reclass, directory_path, directory) :
              RBecomes(loaded)
LoadDirectory == \E directory_path \in DirectoryPaths : LoadImages(directory_path)

\* The classify and skip buttons are drawn only for a loaded, non-empty
\* working set.
Classifiable == cards_loaded /\ Len(card_pairs) > 0

ClassifyPair ==
    /\ Classifiable
    /\ classified_count < MaxClassified
    /\ \E label \in Labels : RBecomes(rename_card_pair(Reclass, label))

SkipPair ==
    /\ Classifiable
    /\ RBecomes([Reclass EXCEPT !.card_index = next_card(Reclass), !.message = ""])

PrevCard ==
    /\ cards_loaded
    /\ RBecomes([Reclass EXCEPT !.card_index = IF @ > 0 THEN @ - 1 ELSE @,
                                 !.message = ""])

NextCard ==
    /\ cards_loaded
    /\ RBecomes([Reclass EXCEPT !.card_index = next_card(Reclass), !.message = ""])

JumpCard ==
    /\ Classifiable
    /\ \E jump_to \in 1 .. Len(card_pairs) :
           RBecomes([Reclass EXCEPT !.card_index = jump_to - 1, !.message = ""])

\* Outside the program: a file of the directory is removed.
FileVanishes ==
    \E f \in directory : RBecomes([Reclass EXCEPT !.directory = @ \ {f}])

\* The file names the directory may start with. The back file of 0c in
\* capitals has its grade 10 in Arabic-Indic digits and the Kelvin sign for
\* its K; 0c has a second front file, with the extension jpeg, and a back
\* file whose grade 1.0.0 is no number.
ArabicIndic10 == <<1633, 1632>>
KelvinSign == 8490
F_10_ab_front_jpg == Codes(<<"1", "0", "_", "a", "b", "_">>) \o front \o Codes(<<".", "j", "p", "g">>)
F_10_ab_back_jpg == Codes(<<"1", "0", "_", "a", "b", "_">>) \o back \o Codes(<<".", "j", "p", "g">>)
F_100_0c_front_png == Codes(<<"1", "0", ".", "0", "_", "0", "c", "_">>) \o front \o Codes(<<".", "p", "n", "g">>)
F_10_ab_front_gif == Codes(<<"1", "0", "_", "a", "b", "_">>) \o front \o Codes(<<".", "g", "i", "f">>)
F_9_0c_back_png == Codes(<<"9", "_", "0", "c", "_">>) \o back \o Codes(<<".", "p", "n", "g">>)
F_10_0c_front_jpeg == Codes(<<"1", "0", "_", "0", "c", "_">>) \o front \o Codes(<<".", "j", "p", "e", "g">>)
F_1_0_0_0c_back_png == Codes(<<"1", ".", "0", ".", "0", "_", "0", "c", "_">>) \o back \o Codes(<<".", "p", "n", "g">>)
F_10_0c_BACK_JPG ==
    ArabicIndic10 \o Codes(<<"_", "0", "c", "_", "B", "A", "C">>) \o <<KelvinSign>>
        \o Codes(<<".", "J", "P", "G">>)
FileUniverse ==
    { F_10_ab_front_jpg, F_10_ab_back_jpg, F_100_0c_front_png, F_10_0c_BACK_JPG,
      F_10_ab_front_gif, F_9_0c_back_png, F_10_0c_front_jpeg, F_1_0_0_0c_back_png }

InitCurationIdle ==
    /\ dataset = <<>>
    /\ base_path = ""
    /\ data_loaded = FALSE
    /\ current_index = 0
    /\ modified_items = {}
    /\ deleted_items = {}
    /\ files = {}
    /\ last_export = NoExport

InitReclass ==
    /\ card_pairs = <<>>
    /\ source_dir = ""
    /\ cards_loaded = FALSE
    /\ card_index = 0
    /\ classified_count = 0
    /\ directory \in {d \in SUBSET FileUniverse : Cardinality(d) <= MaxFiles}
    /\ message = ""
    /\ InitCurationIdle

NextReclass ==
    \/ LoadDirectory
    \/ ClassifyPair
    \/ SkipPair
    \/ PrevCard
    \/ NextCard
    \/ JumpCard
    \/ FileVanishes

SpecReclass == InitReclass /\ [][NextReclass]_vars


(***************************************************************************)
(*                               CLAIMS                                    *)
(***************************************************************************)

\* ------------------------------------------------------ words of the claims
\* The texts the claims name.
Id_ab == Codes(<<"a", "b">>)
Id_0c == Codes(<<"0", "c">>)
Text_10 == Codes(<<"1", "0">>)
Text_10_0 == Codes(<<"1", "0", ".", "0">>)
Ext_jpeg == Codes(<<"j", "p", "e", "g">>)
F_10m_0c_front_png == Codes(<<"1", "0", "m", "_", "0", "c", "_">>) \o front \o Codes(<<".", "p", "n", "g">>)
F_10m_0c_back_png == Codes(<<"1", "0", "m", "_", "0", "c", "_">>) \o back \o Codes(<<".", "p", "n", "g">>)
\* The grades of the file names that are a writing of the number 10.
TextsOfTen == {Text_10, Text_10_0, ArabicIndic10}

\* The outcome export gave item i: the kind of the i-th log entry.
Outcome(i) == last_export.export_log[i + 1].kind

SourceExists(i, k) ==
    get_full_image_path(Session, dataset[i + 1].images[k + 1]) \in files

\* The value is set: the key is there and holds a number (0 included) or a
\* non-empty text.
is_set(v) == v.t = "num" \/ (v.t = "text" /\ v.s # "")

\* Not deleted, grade set, company set and non-empty, exactly 2 images, both
\* source files there.
Eligible(i) ==
    /\ i \notin deleted_items
    /\ is_set(dataset[i + 1].grade)
    /\ is_set(dataset[i + 1].grading_company)
    /\ Len(dataset[i + 1].images) = 2
    /\ SourceExists(i, 0)
    /\ SourceExists(i, 1)

\* C1: whenever export has run, every item of the session got the outcome
\* "exported" if and only if it is not in deleted, its grade is set, its
\* grading company is set and non-empty, it has exactly 2 images and both
\* source files exist.
C1_ExportedIffEligible ==
    last_export.ran =>
        \A i \in Indices(Session) : (Outcome(i) = "exported") <=> Eligible(i)

\* C2: a ClassifyPair call in which the front file can be renamed and the
\* rename of the back file fails leaves the directory listing as it was.
C2_ClassifyAllOrNothing ==
    [][ ( /\ ClassifyPair
          /\ card_pairs[card_index + 1].front \in directory
          /\ card_pairs[card_index + 1].back \notin directory )
        => directory' = directory ]_vars

\* The value is missing as export tests it (not item.get(key)): the key is
\* absent, or holds None, an empty text or the number 0 (the last is C20's
\* case).
Missing(v) ==
    \/ v.t \in {"absent", "null"}
    \/ v.t = "text" /\ v.s = ""
    \/ v.t = "num" /\ v.n = 0

\* The outcome the priority order of C3 gives item i.
PriorityOutcome(i) ==
    IF i \in deleted_items THEN "deleted"
    ELSE IF Missing(dataset[i + 1].grade) \/ Missing(dataset[i + 1].grading_company)
    THEN "missing"
    ELSE IF Len(dataset[i + 1].images) # 2 THEN "images"
    ELSE IF SourceExists(i, 0) /\ SourceExists(i, 1) THEN "exported"
    ELSE "error"

\* C3: whenever export has run, every item has exactly one outcome, the one
\* the priority order gives it (deleted, else grade or company missing, else
\* image count not 2, else the export attempt: exported, or skipped with the
\* error); exported_count + skipped_count is the number of items, with the
\* exported items counted in one and all others in the other; the log has
\* one entry per item, in item index order.
C3_OneOutcomeInPriorityOrder ==
    last_export.ran =>
        /\ last_export.exported_count + last_export.skipped_count = Len(dataset)
        /\ last_export.exported_count =
               Cardinality({i \in Indices(Session) : PriorityOutcome(i) = "exported"})
        /\ Len(last_export.export_log) = Len(dataset)
        /\ \A i \in Indices(Session) :
               /\ last_export.export_log[i + 1].listing_id = dataset[i + 1].listing_id
               /\ Outcome(i) = PriorityOutcome(i)

\* C3 witness: export has run on two items; the first was exported, the
\* second has a grade and a company and was skipped for its image count.
C3_Witness ==
    /\ last_export.ran
    /\ Len(dataset) = 2
    /\ Outcome(0) = "exported"
    /\ Outcome(1) = "images"
    /\ ~Missing(dataset[2].grade)
    /\ last_export.exported_count = 1
    /\ last_export.skipped_count = 1

\* C4: a step in which export runs writes a snapshot with exactly one record
\* per item of the collection as it was when export started, in the same
\* order, each equal to the item in memory; deleted and skipped items are
\* among them.
C4_SnapshotIsFullDump ==
    [][ last_export'.ran =>
            /\ Len(last_export'.snapshot) = Len(dataset)
            /\ \A k \in 1 .. Len(dataset) : last_export'.snapshot[k] = dataset[k] ]_vars

\* C4 witness: export has run on two items, one of them deleted, one
\* skipped for its grade and edited before (its image list is not the loaded
\* one), and the snapshot holds both.
C4_Witness ==
    /\ last_export.ran
    /\ Len(dataset) = 2
    /\ Len(last_export.snapshot) = 2
    /\ 0 \in deleted_items
    /\ 1 \in modified_items
    /\ Outcome(0) = "deleted"
    /\ Outcome(1) = "missing"
    /\ dataset[2].images = <<"c.png", "b.jpg">>

\* C5: whenever the session has items, the cursor is an index of one.
C5_CursorInRange ==
    Len(dataset) > 0 => (0 <= current_index /\ current_index < Len(dataset))

\* C5 witness: the cursor stands on the last of two items, after the first
\* was updated and the last marked deleted, the two operations that advance.
C5_Witness ==
    /\ Len(dataset) = 2
    /\ current_index = 1
    /\ deleted_items = {1}
    /\ modified_items = {0}

\* C6: no item index is in modified and in deleted at once.
C6_ModifiedDeletedDisjoint == modified_items \cap deleted_items = {}

\* C7: for every item index i, MarkDeleted(i) followed by UnmarkDeleted(i)
\* leaves i outside deleted and leaves item i (image list, grade, grading
\* company, every other field) as it was before MarkDeleted(i).
C7_MarkUnmarkRoundTrip ==
    Editable =>
        \A i \in Indices(Session) :
            LET T == undelete_listing(delete_listing(Session, i), i) IN
            /\ i \notin T.deleted_items
            /\ T.dataset[i + 1] = dataset[i + 1]

\* C7 witness: the single item was edited (its image list is no longer the
\* loaded one), yet it is neither modified nor deleted: it has been marked
\* deleted, which took it out of modified, and restored, and the edited
\* image list and the metadata are still there.
C7_Witness ==
    /\ Len(dataset) = 1
    /\ dataset[1].images = <<"b.jpg", "a.jpg">>
    /\ dataset[1].grade = Num(10)
    /\ modified_items = {}
    /\ deleted_items = {}

\* C8: for every item i and positions a, b, SwapImages(i, a, b) applied
\* twice in a row gives back the image list of item i, in range or not.
C8_SwapTwiceRestores ==
    Editable =>
        \A i \in Indices(Session), a \in 0 .. MaxImageIndex, b \in 0 .. MaxImageIndex :
            swap_images(swap_images(Session, i, a, b), i, a, b).dataset[i + 1].images
                = dataset[i + 1].images

\* C8 witness: the three images of the loaded item stand in the order one
\* swap of positions 1 and 2 gives, and the same swap changes the list again.
C8_Witness ==
    /\ Len(dataset) = 1
    /\ dataset[1].images = <<"a.jpg", "c.png", "b.jpg">>
    /\ swap_images(Session, 0, 1, 2).dataset[1].images = <<"a.jpg", "b.jpg", "c.png">>

\* The unique ids for which the files hold a file of this side, among the
\* files whose names match the filename pattern with a grade numerically
\* equal to 10, and among the image files of these; and the unique ids of
\* the CardPairs of a working set.
MatchesGrade10(name, side) ==
    LET p == parse_filename(name) IN p.ok /\ is_grade_10(p.grade) /\ p.side = side
IdsMatching(files_at, side) ==
    {parse_filename(f).unique_id : f \in {g \in files_at : MatchesGrade10(g, side)}}
IdsOfImagesMatching(files_at, side) ==
    {parse_filename(f).unique_id :
         f \in {g \in files_at : is_image_file(g) /\ MatchesGrade10(g, side)}}
PairIdsOf(pairs) == {pairs[k].unique_id : k \in DOMAIN pairs}

\* The steps of LoadDirectory. A load of the directory is the one step that
\* reports the load, and it leaves the files alone. A load of a path that is
\* no directory is a load of the path that does not exist or of the path of
\* a regular file.
LoadStep == message' = "loaded" /\ directory' = directory
NoDirectoryLoad == LoadImages(MissingPath) \/ LoadImages(FilePath)

\* C9 as stated: a load produces a CardPair for a unique id if and only if
\* the directory holds, among the files that match the pattern with a grade
\* equal to 10, a front file and a back file with that unique id: the
\* unique ids of the working set after the load are those that have both.
\* A load of a path that is no directory has no file to find and produces
\* no CardPair, the working set stays.
C9_PairIffBothSidesMatch ==
    [][ /\ LoadStep =>
               PairIdsOf(card_pairs') =
                   IdsMatching(directory, front) \cap IdsMatching(directory, back)
        /\ NoDirectoryLoad => card_pairs' = card_pairs ]_vars

\* C9 amended: the same, among the image files (extension jpg, jpeg or png,
\* in any case) that match the pattern with a grade equal to 10; a unique
\* id with one side only yields no CardPair.
C9_PairIffBothSidesScanned ==
    [][ /\ LoadStep =>
               PairIdsOf(card_pairs') =
                   IdsOfImagesMatching(directory, front)
                       \cap IdsOfImagesMatching(directory, back)
        /\ NoDirectoryLoad => card_pairs' = card_pairs ]_vars

\* C9 witness: the directory holds the front and the back of ab, a front of
\* 0c with the grade "10.0" and a back of 0c whose grade "1.0.0" is no
\* number; the load has been reported and the working set is the one pair
\* ab: 0c has one side only among the files with a grade equal to 10.
C9_Witness ==
    /\ message = "loaded"
    /\ directory = {F_10_ab_front_jpg, F_10_ab_back_jpg,
                    F_100_0c_front_png, F_1_0_0_0c_back_png}
    /\ Id_0c \in IdsOfImagesMatching(directory, front)
    /\ Id_0c \notin IdsOfImagesMatching(directory, back)
    /\ Len(card_pairs) = 1
    /\ card_pairs[1].unique_id = Id_ab
    /\ card_pairs[1].front = F_10_ab_front_jpg
    /\ card_pairs[1].back = F_10_ab_back_jpg

\* C10: DeleteImage(i, k) with k in range removes exactly the entry at k
\* (one shorter, the others in their order), adds i to modified, and does so
\* whether or not the image file exists; the file does not exist afterwards.
C10_DeleteImageRemovesEntry ==
    Editable =>
        \A i \in Indices(Session), k \in 0 .. MaxImageIndex :
            LET imgs == dataset[i + 1].images
                T == delete_image(Session, i, k)
                left == T.dataset[i + 1].images
            IN
            k < Len(imgs) =>
                /\ Len(left) = Len(imgs) - 1
                /\ \A j \in 1 .. k : left[j] = imgs[j]
                /\ \A j \in (k + 1) .. Len(left) : left[j] = imgs[j + 1]
                /\ i \in T.modified_items
                /\ get_full_image_path(Session, imgs[k + 1]) \notin T.files
                /\ \A j \in Indices(Session) \ {i} : T.dataset[j + 1] = dataset[j + 1]

\* C10 witness: the item has its three images, the file of the middle one
\* does not exist, and deleting the middle image removes just that entry
\* and marks the item, which was not modified before.
C10_Witness ==
    /\ Len(dataset) = 1
    /\ dataset[1].images = <<"a.jpg", "b.jpg", "c.png">>
    /\ files = {<<BaseDir, "a.jpg">>, <<BaseDir, "c.png">>}
    /\ modified_items = {}
    /\ delete_image(Session, 0, 1).dataset[1].images = <<"a.jpg", "c.png">>
    /\ delete_image(Session, 0, 1).modified_items = {0}
    /\ delete_image(Session, 0, 1).files = files

\* The cursor after "advance by one, clamped at the last index".
ClampedNext(cursor, count) == IF cursor + 1 < count - 1 THEN cursor + 1 ELSE count - 1

\* C11: an out-of-range edit changes nothing: DeleteImage(i, k) with k at or
\* past the length of item i's image list, and SwapImages(i, a, b) with a or
\* b at or past it, leave the whole session as it was: every image list, the
\* files, modified (i is not added), deleted and the cursor.
C11_OutOfRangeEditIsNoOp ==
    Editable =>
        \A i \in Indices(Session), a \in 0 .. MaxImageIndex, b \in 0 .. MaxImageIndex :
            LET n == Len(dataset[i + 1].images) IN
            /\ a >= n => delete_image(Session, i, a) = Session
            /\ (a >= n \/ b >= n) => swap_images(Session, i, a, b) = Session

\* C11 witness: two items are loaded and none is modified; the first has two
\* images whose files exist, and deleting its image 2 or swapping its images
\* 0 and 2 leaves the session, its modified set included, as it is.
C11_Witness ==
    /\ Len(dataset) = 2
    /\ Len(dataset[1].images) = 2
    /\ modified_items = {}
    /\ SourceExists(0, 0) /\ SourceExists(0, 1)
    /\ delete_image(Session, 0, 2) = Session
    /\ swap_images(Session, 0, 0, 2) = Session
    /\ swap_images(Session, 0, 2, 1) = Session

\* C12: UpdateMetadata(i, grade, company) sets the grade and the grading
\* company of item i to the values given, adds i to modified and moves the
\* cursor to min(cursor + 1, len(items) - 1); no other item changes, and no
\* image list.
C12_UpdateMetadataEffect ==
    Editable =>
        \A i \in Indices(Session), in \in UpdateInputs :
            LET T == update_metadata(Session, i, in[1], in[2]) IN
            /\ T.dataset[i + 1].grade = in[1]
            /\ T.dataset[i + 1].grading_company = in[2]
            /\ T.modified_items = modified_items \cup {i}
            /\ T.current_index = ClampedNext(current_index, Len(dataset))
            /\ Len(T.dataset) = Len(dataset)
            /\ \A j \in Indices(Session) \ {i} : T.dataset[j + 1] = dataset[j + 1]
            /\ T.dataset[i + 1].images = dataset[i + 1].images
            /\ T.dataset[i + 1].listing_id = dataset[i + 1].listing_id

\* C12 witness: of the two loaded items the first has been given the grade
\* "A" and an empty company, it is modified, the cursor has moved from it to
\* the second, and the second item and the image lists are the loaded ones.
C12_Witness ==
    /\ Len(dataset) = 2
    /\ dataset[1] = MkItem("L1", <<"a.jpg", "b.jpg">>, Text("A"), Text(""))
    /\ dataset[2] = MkItem("L2", <<"b.jpg", "c.png">>, Num(0), Text("PSA"))
    /\ modified_items = {0}
    /\ deleted_items = {}
    /\ current_index = 1

\* C13: MarkDeleted(i) adds i to deleted, takes i out of modified and moves
\* the cursor to min(cursor + 1, len(items) - 1); UnmarkDeleted(i) takes i
\* out of deleted and leaves the cursor, modified and every item as they
\* were, and changes nothing when i is not in deleted.
C13_MarkUnmarkEffect ==
    Editable =>
        \A i \in Indices(Session) :
            LET M == delete_listing(Session, i)
                U == undelete_listing(Session, i)
            IN
            /\ M.deleted_items = deleted_items \cup {i}
            /\ M.modified_items = modified_items \ {i}
            /\ M.current_index = ClampedNext(current_index, Len(dataset))
            /\ U.deleted_items = deleted_items \ {i}
            /\ U.current_index = current_index
            /\ U.modified_items = modified_items
            /\ U.dataset = dataset
            /\ i \notin deleted_items => U = Session

\* C13 witness: the first of two items is marked deleted and is not
\* modified, the second is modified, the cursor stands on the second, and
\* restoring the first takes it out of deleted with the cursor still there.
C13_Witness ==
    /\ Len(dataset) = 2
    /\ deleted_items = {0}
    /\ modified_items = {1}
    /\ current_index = 1
    /\ undelete_listing(Session, 0).deleted_items = {}
    /\ undelete_listing(Session, 0).current_index = 1
    /\ delete_listing(Session, 1).modified_items = {}

\* C14: a ClassifyPair(pair, label) that succeeds, label being 10m or 10p,
\* renames the front and the back file of the pair to
\* "{label}_{unique_id}_front.{ext}" and "{label}_{unique_id}_back.{ext}",
\* sets the grade of the pair in memory to label and its front and back
\* names to the new names, keeps its unique_id, adds exactly one to the
\* classified counter and moves the cursor on by one, clamped at the last
\* index of the working set.
C14_ClassifyRenamesAndAdvances ==
    [][ (ClassifyPair /\ message' = "classified") =>
            LET i == card_index + 1
                old == card_pairs[i]
                new == card_pairs'[i]
            IN
            \E label \in {Label10m, Label10p} :
                LET stem == label \o <<Underscore>> \o old.unique_id \o <<Underscore>>
                    new_front == stem \o front \o <<Dot>> \o old.extension
                    new_back == stem \o back \o <<Dot>> \o old.extension
                IN
                /\ directory' = (directory \ {old.front, old.back}) \cup {new_front, new_back}
                /\ new.grade = label
                /\ new.front = new_front
                /\ new.back = new_back
                /\ new.unique_id = old.unique_id
                /\ Len(card_pairs') = Len(card_pairs)
                /\ \A k \in DOMAIN card_pairs : k # i => card_pairs'[k] = card_pairs[k]
                /\ classified_count' = classified_count + 1
                /\ card_index' = ClampedNext(card_index, Len(card_pairs)) ]_vars

\* C14 witness: of the two loaded pairs the first, 0c, has been classified
\* 10m: its files carry the new names with the extension of the pair, the
\* pair in memory carries them too, the counter is 1 and the cursor has
\* moved on to the second pair, whose files are untouched.
C14_Witness ==
    /\ message = "classified"
    /\ classified_count = 1
    /\ card_index = 1
    /\ Len(card_pairs) = 2
    /\ card_pairs[1].unique_id = Id_0c
    /\ card_pairs[1].grade = Label10m
    /\ card_pairs[1].front = F_10m_0c_front_png
    /\ card_pairs[1].back = F_10m_0c_back_png
    /\ directory = {card_pairs[1].front, card_pairs[1].back,
                    F_10_ab_front_jpg, F_10_ab_back_jpg}

\* What C15 says of the state after a load: the working set is sorted by
\* unique_id in strictly increasing lexicographic order (so no unique_id
\* occurs twice), every CardPair in it has a grade that parses to the number
\* 10 ("10" and "10.0" both do, and so does 10 in the digits of another
\* script; a grade that is no number does not), the cursor is 0 and the
\* classified counter is 0.
SortedFilteredReset ==
    /\ \A k \in 1 .. (Len(card_pairs') - 1) :
           str_less(card_pairs'[k].unique_id, card_pairs'[k + 1].unique_id)
    /\ \A k \in DOMAIN card_pairs' :
           /\ is_grade_10(card_pairs'[k].grade)
           /\ card_pairs'[k].grade \in TextsOfTen
    /\ card_index' = 0
    /\ classified_count' = 0

\* C15 as stated: after every LoadDirectory, of a directory or of a path
\* that is no directory, whatever the working set, the cursor and the
\* counter were before, the working set is sorted and holds grades equal to
\* 10 only, and the cursor and the classified counter are 0.
C15_EveryLoadSortsFiltersResets ==
    [][ (LoadStep \/ NoDirectoryLoad) => SortedFilteredReset ]_vars

\* C15 amended: after every LoadDirectory of a path that is a directory,
\* whatever the working set, the cursor and the counter were before, the
\* working set is sorted and holds grades equal to 10 only, and the cursor
\* and the classified counter are 0; a LoadDirectory of a path that does not
\* exist or that is no directory leaves the working set, the cursor and
\* the classified counter as they were.
C15_LoadSortsFiltersResets ==
    [][ /\ LoadStep => SortedFilteredReset
        /\ NoDirectoryLoad =>
               /\ card_pairs' = card_pairs
               /\ card_index' = card_index
               /\ classified_count' = classified_count
               /\ cards_loaded' = cards_loaded
               /\ source_dir' = source_dir ]_vars

\* C15 witness: a load has just been reported; the working set holds the
\* pair 0c with the grade "10.0" before the pair ab with the grade "10",
\* and the cursor and the counter are 0.
C15_Witness ==
    /\ message = "loaded"
    /\ Len(card_pairs) = 2
    /\ card_pairs[1].unique_id = Id_0c
    /\ card_pairs[1].grade = Text_10_0
    /\ card_pairs[2].unique_id = Id_ab
    /\ card_pairs[2].grade = Text_10
    /\ card_index = 0
    /\ classified_count = 0

\* C16: a load that fails because the document cannot be parsed leaves the
\* session as it was before the load: items, base_path, cursor, modified and
\* deleted are unchanged, nothing is loaded in part; a load that succeeds
\* replaces the items by those of the document (a single object becomes a
\* list of one) and sets the cursor to 0 and modified and deleted to empty.
C16_FailedLoadChangesNothing ==
    \A doc \in Documents :
        LET T == load_dataset(Session, doc, BaseDir) IN
        /\ doc.kind = "invalid" =>
               /\ T.dataset = dataset
               /\ T.base_path = base_path
               /\ T.current_index = current_index
               /\ T.modified_items = modified_items
               /\ T.deleted_items = deleted_items
               /\ T.data_loaded = data_loaded
        /\ doc.kind # "invalid" =>
               /\ T.dataset = IF doc.kind = "object" THEN <<doc.obj>> ELSE doc.list
               /\ T.base_path = BaseDir
               /\ T.current_index = 0
               /\ T.modified_items = {}
               /\ T.deleted_items = {}

\* C16 witness: two items are loaded, the cursor is on the second, the first
\* is modified and the second deleted; a load of the unparsable document
\* leaves all of it, a load of the single object replaces the items by that
\* one and resets the cursor and both sets.
C16_Witness ==
    /\ Len(dataset) = 2
    /\ current_index = 1
    /\ modified_items = {0}
    /\ deleted_items = {1}
    /\ load_dataset(Session, DocInvalid, BaseDir) = Session
    /\ Len(load_dataset(Session, DocObject, BaseDir).dataset) = 1
    /\ load_dataset(Session, DocObject, BaseDir).current_index = 0
    /\ load_dataset(Session, DocObject, BaseDir).modified_items = {}
    /\ load_dataset(Session, DocObject, BaseDir).deleted_items = {}

\* Every item has the image list it had before the step.
SameImages ==
    /\ Len(dataset') = Len(dataset)
    /\ \A j \in Indices(Session) : dataset'[j + 1].images = dataset[j + 1].images

\* new is old with one entry taken out, or with two entries exchanged.
IsRemoval(old, new) ==
    \E k \in 1 .. Len(old) : new = SubSeq(old, 1, k - 1) \o SubSeq(old, k + 1, Len(old))
IsExchange(old, new) ==
    \E a \in 1 .. Len(old), b \in 1 .. Len(old) :
        new = [old EXCEPT ![a] = old[b], ![b] = old[a]]

\* C17: between loads, a step that changes the image list of an item is a
\* DeleteImage or a SwapImages and none of UpdateMetadata, MarkDeleted,
\* UnmarkDeleted, cursor navigation and Export; it changes the image list
\* of one item only, the one it is applied to (which it marks modified), by
\* taking one entry out or exchanging two.
C17_ImagesChangeOnlyByOwnEdit ==
    [][ (~SameImages /\ ~LoadDataset) =>
            /\ Len(dataset') = Len(dataset)
            /\ DeleteImage \/ SwapImages
            /\ ~(UpdateMetadata \/ MarkDeleted \/ UnmarkDeleted
                   \/ Prev \/ NextItem \/ Jump \/ Export)
            /\ \E i \in Indices(Session) :
                   /\ i \in modified_items'
                   /\ \/ IsRemoval(dataset[i + 1].images, dataset'[i + 1].images)
                      \/ IsExchange(dataset[i + 1].images, dataset'[i + 1].images)
                   /\ \A j \in Indices(Session) \ {i} :
                          dataset'[j + 1].images = dataset[j + 1].images ]_vars

\* C17 witness: of the two loaded items the first has had its metadata
\* updated and has the image list it was loaded with; the second has its two
\* images exchanged; both are modified.
C17_Witness ==
    /\ Len(dataset) = 2
    /\ dataset[1].grade = Text("A")
    /\ dataset[1].images = <<"a.jpg", "b.jpg">>
    /\ dataset[2].images = <<"c.png", "b.jpg">>
    /\ dataset[2].grade = Num(0)
    /\ modified_items = {0, 1}
    /\ deleted_items = {}

\* C18: the number of items changes in a load only (no edit, MarkDeleted
\* included, and no Export takes an item out of items), every
\* element of deleted is an index of an item, and UnmarkDeleted restores it:
\* it takes the index out of deleted and leaves the items as they are.
C18_DeletedStaysRestorable ==
    [][ /\ Len(dataset') # Len(dataset) => LoadDataset
        /\ \A i \in deleted_items' :
               /\ 0 <= i /\ i < Len(dataset')
               /\ undelete_listing(Session', i).deleted_items = deleted_items' \ {i}
               /\ undelete_listing(Session', i).dataset = dataset' ]_vars

\* C18 witness: both items are marked deleted, export has run and skipped
\* them as deleted, and both are still among the items, with their images.
C18_Witness ==
    /\ Len(dataset) = 2
    /\ deleted_items = {0, 1}
    /\ last_export.ran
    /\ Outcome(0) = "deleted"
    /\ Outcome(1) = "deleted"
    /\ last_export.skipped_count = 2
    /\ dataset[1].images = <<"a.jpg", "b.jpg">>
    /\ dataset[2].images = <<"b.jpg", "c.png">>

\* Export attempts item i (it is not deleted, its grade and its company are
\* not missing, it has exactly 2 images), and of its two source files the
\* front one exists and the back one does not.
FrontOnly(i) ==
    /\ i \notin deleted_items
    /\ ~Missing(dataset[i + 1].grade)
    /\ ~Missing(dataset[i + 1].grading_company)
    /\ Len(dataset[i + 1].images) = 2
    /\ SourceExists(i, 0)
    /\ ~SourceExists(i, 1)

\* C19: whenever export has run, an item it attempted whose front source
\* file exists and whose back source file does not has its front file copied
\* to the directory of its company, and the copy is still there; nothing is
\* copied from the back file; the item counts as skipped, with an error
\* entry that names the missing file; and every later item that is not
\* deleted, has a grade, a company, exactly 2 images and both files is
\* exported.
C19_PartialCopyKeptBatchContinues ==
    last_export.ran =>
        \A i \in Indices(Session) :
            FrontOnly(i) =>
                LET item == dataset[i + 1] IN
                /\ Outcome(i) = "error"
                /\ last_export.export_log[i + 1].detail = item.images[2]
                /\ \E f \in last_export.copied :
                       /\ f.side = "front"
                       /\ f.source = <<base_path, item.images[1]>>
                       /\ f.dir = item.grading_company.s
                       /\ f.grade = item.grade
                /\ \A f \in last_export.copied : f.source # <<base_path, item.images[2]>>
                /\ last_export.skipped_count >= 1
                /\ last_export.exported_count <= Len(dataset) - 1
                /\ \A j \in Indices(Session) :
                       ( /\ j > i
                         /\ j \notin deleted_items
                         /\ ~Missing(dataset[j + 1].grade)
                         /\ ~Missing(dataset[j + 1].grading_company)
                         /\ Len(dataset[j + 1].images) = 2
                         /\ SourceExists(j, 0) /\ SourceExists(j, 1) )
                       => Outcome(j) = "exported"

\* C19 witness: export has run on two items; the first has its front file
\* b.jpg and no back file a.jpg, it was skipped with the error and its front
\* copy is there; the second was exported after it, with both its copies.
C19_Witness ==
    /\ last_export.ran
    /\ Len(dataset) = 2
    /\ dataset[1].images = <<"b.jpg", "a.jpg">>
    /\ files = {<<BaseDir, "b.jpg">>, <<BaseDir, "c.png">>}
    /\ FrontOnly(0)
    /\ Outcome(0) = "error"
    /\ Outcome(1) = "exported"
    /\ last_export.exported_count = 1
    /\ last_export.skipped_count = 1
    /\ Cardinality(last_export.copied) = 3

\* C20: whenever export has run, an item that is not deleted and whose grade
\* is the number 0 was skipped as having a missing grade or grading company,
\* and nothing was copied for it, even when it has a grading company,
\* exactly 2 images and both files.
C20_GradeZeroIsMissing ==
    last_export.ran =>
        \A i \in Indices(Session) :
            (i \notin deleted_items /\ dataset[i + 1].grade = Num(0)) =>
                /\ Outcome(i) = "missing"
                /\ \A f \in last_export.copied : f.grade # Num(0)

\* C20 witness: export has run; the second item is not deleted, has the
\* grade 0, the company PSA and two images whose files exist, and it was
\* skipped as missing, while the first item was exported.
C20_Witness ==
    /\ last_export.ran
    /\ Len(dataset) = 2
    /\ deleted_items = {}
    /\ dataset[2].grade = Num(0)
    /\ dataset[2].grading_company = Text("PSA")
    /\ Len(dataset[2].images) = 2
    /\ SourceExists(1, 0) /\ SourceExists(1, 1)
    /\ Outcome(1) = "missing"
    /\ Outcome(0) = "exported"
    /\ last_export.skipped_count = 1

\* The extension in the name of a file, the name of the one of the two files
\* of a pair that the scan met last, and the name of the first file of the
\* scan that entered the grouping under a unique id.
ExtensionOf(name) == parse_filename(name).extension
ScanPlace(listing, name) == CHOOSE k \in DOMAIN listing : listing[k].name = name
ScannedLast(listing, pair) ==
    IF ScanPlace(listing, pair.front) < ScanPlace(listing, pair.back)
    THEN pair.back ELSE pair.front
ScannedAs(file, unique_id) == file.scanned /\ file.parsed.unique_id = unique_id
FirstScannedOf(listing, unique_id) ==
    listing[CHOOSE k \in DOMAIN listing :
                /\ ScannedAs(listing[k], unique_id)
                /\ \A j \in 1 .. (k - 1) : ~ScannedAs(listing[j], unique_id)].name
ScanOrders == Listings(files_of(directory))
PairsLoaded(listing) == load_image_directory(Reclass, CardsDir, listing).card_pairs

C22_SkipOnlyMovesCursor ==
    [][ /\ SkipPair =>
               /\ card_index' = ClampedNext(card_index, Len(card_pairs))
               /\ directory' = directory
               /\ card_pairs' = card_pairs
               /\ classified_count' = classified_count
               /\ source_dir' = source_dir
               /\ cards_loaded' = cards_loaded
        /\ Len(card_pairs') > 0 =>
               (0 <= card_index' /\ card_index' < Len(card_pairs')) ]_vars

\* C22 witness: two pairs are loaded, none is classified and no file is
\* renamed, and the cursor has moved from the first pair to the second,
\* the last, where a further SkipPair leaves it.
C22_Witness ==
    /\ cards_loaded
    /\ Len(card_pairs) = 2
    /\ card_index = 1
    /\ classified_count = 0
    /\ message = ""
    /\ directory = {F_10_ab_front_jpg, F_10_ab_back_jpg,
                    F_100_0c_front_png, F_10_0c_BACK_JPG}
    /\ card_pairs[1].grade \in TextsOfTen
    /\ next_card(Reclass) = 1

\* C23: a step in which export runs leaves the session and the source files
\* as they were: the items (every field, every image list), modified,
\* deleted, the cursor and the image files; and an export that follows an
\* export with no edit in between returns the same exported and skipped
\* counts.
C23_ExportLeavesSessionAlone ==
    [][ last_export'.ran =>
            /\ dataset' = dataset
            /\ modified_items' = modified_items
            /\ deleted_items' = deleted_items
            /\ current_index' = current_index
            /\ base_path' = base_path
            /\ files' = files
            /\ last_export.ran =>
                   /\ last_export'.exported_count = last_export.exported_count
                   /\ last_export'.skipped_count = last_export.skipped_count ]_vars

\* C23 witness: export has run on two items and exported the first; all
\* three image files are still there, the second item is still modified,
\* the cursor still stands on it, and a further export gives the same
\* counts under other unique ids.
C23_Witness ==
    /\ last_export.ran
    /\ Len(dataset) = 2
    /\ Outcome(0) = "exported"
    /\ last_export.exported_count = 1
    /\ last_export.skipped_count = 1
    /\ files = {BaseDir} \X ImagePaths
    /\ modified_items = {1}
    /\ current_index = 1
    /\ \E ids \in [Indices(Session) -> UniqueIds] :
           /\ export_dataset(Session, ids) # last_export
           /\ export_dataset(Session, ids).exported_count = 1
           /\ export_dataset(Session, ids).skipped_count = 1

\* C24: a ClassifyPair that fails (the rename of the front file or of the
\* back file raises) leaves the session in memory as it was: every CardPair
\* keeps its grade and its front and back names, the classified counter is
\* not incremented and the cursor does not move.
C24_FailedClassifyKeepsSession ==
    [][ (ClassifyPair /\ message' = "rename_error") =>
            /\ card_pairs' = card_pairs
            /\ classified_count' = classified_count
            /\ card_index' = card_index
            /\ source_dir' = source_dir
            /\ cards_loaded' = cards_loaded ]_vars

\* C24 witness: the pair ab was loaded, its front file is gone, and a
\* ClassifyPair has reported the rename error: the pair has its loaded grade
\* and names, the counter is 0, the cursor is on the pair and the back file
\* has its name.
C24_Witness ==
    /\ message = "rename_error"
    /\ Len(card_pairs) = 1
    /\ card_pairs[1].grade = Text_10
    /\ card_pairs[1].front = F_10_ab_front_jpg
    /\ card_pairs[1].back = F_10_ab_back_jpg
    /\ directory = {F_10_ab_back_jpg}
    /\ classified_count = 0
    /\ card_index = 0

\* The pairs of the working set whose grade in memory is a refined label.
RefinedPairs ==
    {k \in DOMAIN card_pairs : card_pairs[k].grade \in {Label10m, Label10p}}

\* C25: in every state of a reclassification session the classified counter
\* is the number of CardPairs of the working set whose grade in memory is
\* 10m or 10p, and so it is never more than the number of pairs.
C25_CounterCountsRefinedPairs ==
    /\ classified_count = Cardinality(RefinedPairs)
    /\ classified_count <= Len(card_pairs)

=============================================================================
